---- MODULE Spec2Model ----
(***************************************************************************)
(* Model of sanderson-notifications.                                       *)
(*  - The progress plugin (src/plugins/progress.go): the diff engine, the  *)
(*    debounced publication state machine that ProgressPlugin.Check runs   *)
(*    once per process run with the persisted ProgressOffset as its only   *)
(*    state, and the decoding of a stored ProgressOffset.                  *)
(*  - The run coordinator (main): configuration loading, one task per      *)
(*    connector, the error collecting task and the offsets file.           *)
(***************************************************************************)
EXTENDS Integers, Sequences, FiniteSets, TLC

\* ---------------------------------------------------------------- bounds
\* Longest list of progress bars a page or an offset holds.
MaxLen == 2
\* Latest instant of the clock; every poll reads a strictly later instant.
MaxTime == 3
\* Largest configured DebounceDelay (0 is immediate mode).
MaxDelay == 2
\* Longest list handed to diff when diff is examined on its own.
MaxDiffLen == 3
\* Largest percentage of a rendered progress bar.
MaxPercent == 100
\* const blockSize = 2.5, in tenths of a percent point.
blockSizeTenths == 25
\* Largest retry_after, in seconds, of a rate-limit response.
MaxRetryAfter == 2
\* const maxRetries = 3
maxRetries == 3
\* Most entries an Atom feed holds.
MaxFeed == 2
\* Largest DebounceDelay and largest sleep between polls of a test scenario.
MaxScenarioDelay == 10
MaxSleep == 5

\* The "Multiple rapid changes" scenario: Debounce(10ms) and Sleep(4ms).
ScenarioDelay == 10
ScenarioSleep == 4

\* Titles and percentages the pages are built from. Two bars may carry the
\* same title: readProgress copies whatever the page lists.
Titles == {"A", "B"}
Values == {0, 50}
\* The test pages never carry a link, and neither do the pages of this model.
Links == {""}

\* ------------------------------------------------------- optional values
\* A Go nil (pointer, slice result, interface) is the empty set, a present
\* value x is {x}.
Nil == {}

Some(x) == {x}

Get(o) == CHOOSE x \in o : TRUE

\* ------------------------------------------------------------ data model
\* type Progress struct { Title; Link; Value }
Progress == [Title : Titles, Link : Links, Value : Values]

\* []Progress of at most MaxLen bars, the empty list included.
Snapshots == UNION {[1..n -> Progress] : n \in 0..MaxLen}

\* The lists diff is examined on: at most MaxDiffLen bars.
DiffLists == UNION {[1..n -> Progress] : n \in 0..MaxDiffLen}

\* The titles a list of progress bars holds.
TitlesOf(bars) == {bars[i].Title : i \in 1..Len(bars)}

\* type ProgressOffset struct { Published; Observed; DebounceStart }
ProgressOffset(published, observed, debounceStart) ==
    [Published |-> published, Observed |-> observed, DebounceStart |-> debounceStart]

VARIABLES
    offset,         \* the ProgressOffset handed from one run's Check to the next
    DebounceDelay,  \* plugin.DebounceDelay, fixed by the configuration
    clock,          \* plugin.clock.Now() as read by the latest Check
    page,           \* latest fetch: Nil on an HTTP error, else {bars of the page}
    sent,           \* latest Check: Nil if Send was not called, else {diff sent}
    err,            \* latest Check: "" (no error), "fetch" or "send"
    detectedAt,     \* history: instant of the poll that started the running debounce
    steady,         \* history: every poll since detectedAt fetched the same bars
    wasDebouncing,  \* history: the latest Check was given a non-nil DebounceStart
    dropped,        \* history: titles once in Published that are not now
    reappeared,     \* history: the latest Check sent a dropped title as new
    sendCalls,      \* history: the Discord.Send calls of the latest Check
    old,            \* diff under test: first argument
    new,            \* diff under test: second argument
    result,         \* diff under test: the value diff returned (Nil before the call)
    called,         \* diff under test: whether diff has been called
    polls,          \* scenario: number of Check calls the runner has made
    mockNow,        \* scenario: the instant the mock clock shows
    sleepDuration,  \* scenario: how far the runner advances the clock per poll
    pubs,           \* scenario: number of messages the mock Discord received
    source,         \* steady source: the list every fetch returns, else Nil
    data,           \* decoding: the JSON document handed to UnmarshalJSON
    decoded,        \* decoding: Nil before the call, else {its outcome}
    mainPc,         \* run: where the main task stands
    config,         \* run: what the configuration file holds for each connector
    current,            \* run: the connector of the current turn of main's loop
    visited,        \* run: the connectors main's loop has dealt with
    wg,             \* run: the WaitGroup counter
    sharedErr,      \* run: main's variable err, which the connector tasks capture
    errored,        \* run: main's variable errored, set by the collector task
    collectorPc,    \* run: "off", "recv" (at the receive) or "set" (received)
    taskPc,         \* run: where each connector's task stands
    given,          \* run: the offset each task hands to Check
    newOffset,      \* run: the offset each connector's Check returned
    rawOffsets,     \* run: the offsets file as read at start
    workingOffsets, \* run: the sync.Map of offsets to be written
    offsetsFile,    \* run: Nil until written, then {the map written}
    exitStatus,     \* run: the exit status, once main has exited
    initInvoked,    \* history: connectors whose Init was invoked
    initFailed,     \* history: connectors whose Init returned an error
    checkInvoked,   \* history: connectors whose Check was invoked
    checkFailed,    \* history: connectors whose Check returned an error
    sentBy,         \* history: connectors whose Check sent a webhook message
    mergeArgs,      \* mergeKeys under test: Nil, or {its arguments left and right}
    merged,         \* mergeKeys under test: Nil before the call, else {its outcome}
    atomArgs,       \* Atom Check under test: Nil, or {offset, feed, filters, sends}
    atomOut,        \* Atom Check under test: Nil before the call, else {its outcome}
    plugin,         \* Validate under test: Nil, or {the ProgressPlugin's fields}
    validated,      \* Validate under test: Nil before the call, else {error or not}
    progressBars,   \* Render under test: the diff handed to Render
    rendered,       \* Render under test: Nil before the call, else {the text}
    firstDone,      \* first run: Check has been called without an offset
    rawReturned,    \* first run: the offset that Check returned, Nil for nil
    sendState,      \* Send: "idle", "running", "nil" or the error returned
    sendTry,        \* Send: the try argument of the running trySend call
    marshals,       \* Send: whether json.Marshal(body) succeeds
    responses,      \* Send: the outcomes of the http.Post calls so far
    slept           \* Send: the seconds slept on rate limits so far

rapidVars == <<polls, mockNow, sleepDuration, pubs, source>>

jsonVars == <<data, decoded>>

runVars == <<mainPc, config, current, visited, wg, sharedErr, errored, collectorPc,
             taskPc, given, newOffset, rawOffsets, workingOffsets, offsetsFile,
             exitStatus, initInvoked, initFailed, checkInvoked, checkFailed,
             sentBy>>

mergeVars == <<mergeArgs, merged>>

atomVars == <<atomArgs, atomOut>>

validateVars == <<plugin, validated>>

renderVars == <<progressBars, rendered>>

firstVars == <<firstDone, rawReturned>>

sendVars == <<sendState, sendTry, marshals, responses, slept>>

pureVars == <<mergeVars, atomVars, validateVars, renderVars, firstVars, sendVars>>

vars == <<offset, DebounceDelay, clock, page, sent, err, detectedAt, steady,
          wasDebouncing, dropped, reappeared, sendCalls, old, new, result, called, rapidVars,
          jsonVars, runVars, pureVars>>

pollVars == <<offset, DebounceDelay, clock, page, sent, err, detectedAt, steady,
              wasDebouncing, dropped, reappeared, sendCalls>>

diffVars == <<old, new, result, called>>

\* ------------------------------------------------------------ diff engine
\* oldKeyed[v.Title] = v for each v of old in order: the last bar of a title wins.
OldKeyed(olds) ==
    [t \in {olds[i].Title : i \in DOMAIN olds} |->
        olds[CHOOSE i \in DOMAIN olds :
                /\ olds[i].Title = t
                /\ \A j \in DOMAIN olds : olds[j].Title = t => j <= i]]

\* One ProgressDiff, as built in the loop over new.
DiffRecord(oldKeyed, v) ==
    LET existedBefore == v.Title \in DOMAIN oldKeyed
        oldValue == IF existedBefore THEN oldKeyed[v.Title].Value ELSE 0
    IN  [Title |-> v.Title, Link |-> v.Link, OldValue |-> oldValue,
         Value |-> v.Value, New |-> ~existedBefore]

\* func diff(old, new []Progress) []ProgressDiff; the nil result is Nil.
diff(olds, news) ==
    LET oldKeyed == OldKeyed(olds)
        res == [i \in 1..Len(news) |-> DiffRecord(oldKeyed, news[i])]
        noChanges == \A i \in 1..Len(news) :
                         ~(res[i].New \/ res[i].OldValue # res[i].Value)
    IN  IF noChanges THEN Nil ELSE Some(res)

\* ------------------------------------------------- debounce state machine
\* Mutant of shouldDelay: the immediate mode case is missing.
shouldDelayNoImmediate(now, off) ==
    CASE off.DebounceStart = Nil -> TRUE
      [] OTHER -> now - Get(off.DebounceStart) < DebounceDelay

\* Mutant of shouldDelay: the wait is over only after more than the delay.
shouldDelayExclusive(now, off) ==
    CASE DebounceDelay = 0 -> FALSE
      [] off.DebounceStart = Nil -> TRUE
      [] OTHER -> now - Get(off.DebounceStart) <= DebounceDelay

\* Mutant of shouldDelay: a debounce never ends.
shouldDelayAlways(now, off) == DebounceDelay # 0

\* func (plugin *ProgressPlugin) shouldDelay(now, offset) bool
shouldDelay(now, off) ==
    CASE DebounceDelay = 0 -> FALSE
      [] off.DebounceStart = Nil -> TRUE
      [] OTHER -> now - Get(off.DebounceStart) < DebounceDelay

\* readProgress: a page without progress bars is an error (Nil).
readProgress(bars) == IF Len(bars) = 0 THEN Nil ELSE Some(bars)

\* Mutant of Changes: the baseline is the last observed list.
ChangesSinceObserved(off, currentProgress) == diff(off.Observed, currentProgress)

\* changes := diff(offset.Published, currentProgress)
Changes(off, currentProgress) == diff(off.Published, currentProgress)

\* Mutant of NoChangeOffset: DebounceStart is carried over.
NoChangeKeepsDebounce(off, currentProgress) ==
    [Published |-> off.Published, Observed |-> currentProgress,
     DebounceStart |-> off.DebounceStart]

\* The offset returned when changes == nil: debouncing is cleared.
NoChangeOffset(off, currentProgress) ==
    ProgressOffset(off.Published, currentProgress, Nil)

\* Mutant of DelayOffset: the delayed list is already taken as published.
DelayOffsetPublishes(off, currentProgress, now) ==
    ProgressOffset(currentProgress, currentProgress, Some(now))

\* Mutant of DelayOffset: every poll inside the window restarts the timer.
DelayOffsetAlwaysReset(off, currentProgress, now) ==
    [Published |-> off.Published, Observed |-> currentProgress,
     DebounceStart |-> Some(now)]

\* Mutant of DelayOffset: a further change does not restart the timer.
DelayOffsetNoReset(off, currentProgress, now) ==
    [Published |-> off.Published, Observed |-> currentProgress,
     DebounceStart |-> IF off.DebounceStart = Nil THEN Some(now)
                       ELSE off.DebounceStart]

\* The offset returned when shouldDelay holds: the switch over DebounceStart.
DelayOffset(off, currentProgress, now) ==
    ProgressOffset(off.Published, currentProgress,
        CASE off.DebounceStart = Nil -> Some(now)
          [] diff(off.Observed, currentProgress) # Nil -> Some(now)
          [] OTHER -> off.DebounceStart)

\* Mutant of PublishedOffset: the bars published before stay published.
PublishedOffsetKeepsStale(currentProgress) ==
    ProgressOffset(offset.Published, currentProgress, Nil)

\* The offset returned after reportProgress succeeded.
PublishedOffset(currentProgress) ==
    ProgressOffset(currentProgress, currentProgress, Nil)

\* Mutant of SendFailedOffset: the new list is committed despite the error.
SendFailedCommits(off, currentProgress) ==
    [Published |-> currentProgress, Observed |-> currentProgress,
     DebounceStart |-> Nil]

\* The offset returned when reportProgress failed: return offset, err.
SendFailedOffset(off, currentProgress) == off

\* Mutant of FetchFailedOffset: a failed fetch drops the running debounce.
FetchFailedClearsDebounce(off) ==
    [Published |-> off.Published, Observed |-> off.Observed, DebounceStart |-> Nil]

\* The offset returned when the fetch or the parse failed: return rawOffset, err.
FetchFailedOffset(off) == off

\* func (plugin *ProgressPlugin) Check(rawOffset, context): the returned offset,
\* the diff handed to Send (Nil when Send is not called) and the error.
\* fetched is Nil when HTTP.Get fails, else {bars on the page}; sendOk is
\* whether Discord.Send would succeed.
CheckOutcome(off, now, fetched, sendOk) ==
    LET parsed == IF fetched = Nil THEN Nil ELSE readProgress(Get(fetched))
    IN  IF parsed = Nil
        THEN [offset |-> FetchFailedOffset(off), sent |-> Nil, err |-> "fetch"]
        ELSE LET currentProgress == Get(parsed)
                 changes == Changes(off, currentProgress)
             IN  IF changes = Nil
                 THEN [offset |-> NoChangeOffset(off, currentProgress),
                       sent |-> Nil, err |-> ""]
                 ELSE IF shouldDelay(now, off)
                 THEN [offset |-> DelayOffset(off, currentProgress, now),
                       sent |-> Nil, err |-> ""]
                 ELSE IF ~sendOk
                 THEN [offset |-> SendFailedOffset(off, currentProgress),
                       sent |-> Some(Get(changes)), err |-> "send"]
                 ELSE [offset |-> PublishedOffset(currentProgress),
                       sent |-> Some(Get(changes)), err |-> ""]

\* Mutant of reportProgress: a failed Send is tried once more.
reportProgressRetries(bars, sendOk) ==
    IF sendOk THEN <<bars>> ELSE <<bars, bars>>

\* func (plugin *ProgressPlugin) reportProgress(client, progressBars): the
\* calls of client.Send it makes, each as the bars it renders.
reportProgress(bars, sendOk) == <<bars>>

\* The Discord.Send calls of one Check: those of its one reportProgress call,
\* which it reaches only past the no-change and the delay returns.
SendCalls(off, now, fetched, sendOk) ==
    LET r == CheckOutcome(off, now, fetched, sendOk)
    IN  IF r.sent = Nil THEN <<>> ELSE reportProgress(Get(r.sent), sendOk)

\* One run of the process: Check reads the clock, fetches the page and returns
\* the offset the next run starts from.
Check(now, fetched, sendOk) ==
    LET r == CheckOutcome(offset, now, fetched, sendOk)
        starts == offset.DebounceStart = Nil /\ r.offset.DebounceStart # Nil
    IN  /\ offset' = r.offset
        /\ sent' = r.sent
        /\ err' = r.err
        /\ clock' = now
        /\ page' = fetched
        /\ detectedAt' = IF r.offset.DebounceStart = Nil THEN Nil
                         ELSE IF starts THEN Some(now) ELSE detectedAt
        /\ steady' = IF starts THEN TRUE
                     ELSE IF offset.DebounceStart = Nil THEN FALSE
                     ELSE steady /\ fetched = Some(offset.Observed)
        /\ wasDebouncing' = (offset.DebounceStart # Nil)
        /\ sendCalls' = SendCalls(offset, now, fetched, sendOk)
        /\ dropped' = (dropped \cup TitlesOf(offset.Published))
                       \ TitlesOf(r.offset.Published)
        /\ reappeared' = /\ r.sent # Nil
                         /\ \E i \in 1..Len(Get(r.sent)) :
                                /\ Get(r.sent)[i].New
                                /\ Get(r.sent)[i].Title \in dropped
        /\ UNCHANGED <<DebounceDelay, diffVars>>

\* The outcomes Discord.Send can have in a run: it succeeds or fails when the
\* run calls it, and has no outcome when the run does not.
SendOutcomes(off, now, fetched) ==
    IF CheckOutcome(off, now, fetched, TRUE).sent = Nil THEN {TRUE} ELSE BOOLEAN

\* A run at a later instant, with any page (or none) and any Send outcome.
Poll ==
    \E now \in (clock + 1)..MaxTime :
        \E fetched \in {Nil} \cup {Some(s) : s \in Snapshots} :
            \E sendOk \in SendOutcomes(offset, now, fetched) :
                /\ Check(now, fetched, sendOk)
                /\ UNCHANGED <<rapidVars, jsonVars, runVars, pureVars>>

\* The connectors of the configuration file, and a key of the offsets file
\* that names none of them.
Conns == {"a", "b"}

Orphans == {"x"}

\* A map without keys.
EmptyMap == [k \in {} |-> "null"]

\* The process has been started and main has not yet loaded the configuration.
RunIdle ==
    /\ mainPc = "load"
    /\ config = [c \in Conns |-> "valid"]
    /\ current = "none"
    /\ visited = {}
    /\ wg = 0
    /\ sharedErr = "nil"
    /\ errored = FALSE
    /\ collectorPc = "off"
    /\ taskPc = [c \in Conns |-> "idle"]
    /\ given = [c \in Conns |-> "null"]
    /\ newOffset = [c \in Conns |-> "null"]
    /\ rawOffsets = EmptyMap
    /\ workingOffsets = EmptyMap
    /\ offsetsFile = Nil
    /\ exitStatus = 0
    /\ initInvoked = {}
    /\ initFailed = {}
    /\ checkInvoked = {}
    /\ checkFailed = {}
    /\ sentBy = {}

\* Discord.Send has not been called.
SendIdle ==
    /\ sendState = "idle"
    /\ sendTry = 0
    /\ marshals = TRUE
    /\ responses = <<>>
    /\ slept = 0

\* None of the functions examined on their own is being examined.
PureIdle ==
    /\ mergeArgs = Nil
    /\ merged = Nil
    /\ atomArgs = Nil
    /\ atomOut = Nil
    /\ plugin = Nil
    /\ validated = Nil
    /\ progressBars = <<>>
    /\ rendered = Nil
    /\ firstDone = FALSE
    /\ rawReturned = Nil
    /\ SendIdle

\* No scenario is being run.
RapidIdle ==
    /\ polls = 0
    /\ mockNow = 0
    /\ sleepDuration = 0
    /\ pubs = 0
    /\ source = Nil

\* The JSON document of the decoding that is not being examined.
NoData ==
    [kind |-> "null", wellTyped |-> TRUE, items |-> <<>>, Published |-> Nil,
     Observed |-> Nil, DebounceStart |-> Nil]

\* No document is being decoded.
JsonIdle ==
    /\ data = NoData
    /\ decoded = Nil

\* The offsets file before the first modelled run: a legacy list or an earlier
\* publish, so published = observed and no debounce (an absent offset is the
\* empty list).
Init ==
    /\ \E s \in Snapshots : offset = ProgressOffset(s, s, Nil)
    /\ DebounceDelay \in 0..MaxDelay
    /\ clock = 0
    /\ page = Nil
    /\ sent = Nil
    /\ err = ""
    /\ detectedAt = Nil
    /\ steady = FALSE
    /\ wasDebouncing = FALSE
    /\ dropped = {}
    /\ reappeared = FALSE
    /\ sendCalls = <<>>
    /\ old = <<>>
    /\ new = <<>>
    /\ result = Nil
    /\ called = FALSE
    /\ RapidIdle
    /\ JsonIdle
    /\ RunIdle
    /\ PureIdle

Next == Poll

Spec == Init /\ [][Next]_vars

\* ----------------------------------------------- diff as a pure function
\* One call of diff on two arbitrary lists.
CallDiff ==
    /\ ~called
    /\ result' = diff(old, new)
    /\ called' = TRUE
    /\ UNCHANGED <<old, new, pollVars, rapidVars, jsonVars, runVars, pureVars>>

InitDiff ==
    /\ offset = ProgressOffset(<<>>, <<>>, Nil)
    /\ DebounceDelay = 0
    /\ clock = 0
    /\ page = Nil
    /\ sent = Nil
    /\ err = ""
    /\ detectedAt = Nil
    /\ steady = FALSE
    /\ wasDebouncing = FALSE
    /\ dropped = {}
    /\ reappeared = FALSE
    /\ sendCalls = <<>>
    /\ old \in DiffLists
    /\ new \in DiffLists
    /\ result = Nil
    /\ called = FALSE
    /\ RapidIdle
    /\ JsonIdle
    /\ RunIdle
    /\ PureIdle

NextDiff == CallDiff

SpecDiff == InitDiff /\ [][NextDiff]_vars

\* ------------------------------------------- scenarios of TestProgress_Check
\* One progress bar without a link.
Bar(title, value) == [Title |-> title, Link |-> "", Value |-> value]

\* InitialProgress("Project A", 50)
RapidInitial == <<Bar("A", 50)>>

\* ResponseSpecs of "Multiple rapid changes": the page each poll fetches.
RapidResponses ==
    << <<Bar("A", 75)>>, <<Bar("A", 85)>>, <<Bar("A", 75)>>,
       <<Bar("A", 75)>>, <<Bar("A", 75)>>, <<Bar("A", 75)>> >>

\* mockClock.Advance(s.sleepDuration), skipped for a zero duration.
Advance(now, d) == IF d > 0 THEN now + d ELSE now

\* One turn of the runner's loop: Check with the next response and the offset
\* the previous Check returned, then the clock is advanced. The mocks never
\* fail.
RapidPoll ==
    /\ polls < Len(RapidResponses)
    /\ Check(mockNow, Some(RapidResponses[polls + 1]), TRUE)
    /\ polls' = polls + 1
    /\ pubs' = pubs + (IF CheckOutcome(offset, mockNow,
                                       Some(RapidResponses[polls + 1]), TRUE).sent = Nil
                       THEN 0 ELSE 1)
    /\ mockNow' = Advance(mockNow, sleepDuration)
    /\ UNCHANGED <<sleepDuration, source, jsonVars, runVars, pureVars>>

\* The runner's setup: the initial offset, a mock clock at its zero instant,
\* and the scenario's Debounce and Sleep.
InitRapid ==
    /\ offset = ProgressOffset(RapidInitial, RapidInitial, Nil)
    /\ DebounceDelay \in 0..MaxScenarioDelay
    /\ sleepDuration \in 0..MaxSleep
    /\ mockNow = 0
    /\ polls = 0
    /\ pubs = 0
    /\ source = Nil
    /\ clock = 0
    /\ page = Nil
    /\ sent = Nil
    /\ err = ""
    /\ detectedAt = Nil
    /\ steady = FALSE
    /\ wasDebouncing = FALSE
    /\ dropped = {}
    /\ reappeared = FALSE
    /\ sendCalls = <<>>
    /\ old = <<>>
    /\ new = <<>>
    /\ result = Nil
    /\ called = FALSE
    /\ JsonIdle
    /\ RunIdle
    /\ PureIdle

NextRapid == RapidPoll

SpecRapid == InitRapid /\ [][NextRapid]_vars

\* ------------------------------------------- decoding a stored ProgressOffset
\* The JSON documents handed to UnmarshalJSON. kind is the JSON type of the
\* document. An array holds items; an object holds the keys Published,
\* Observed and DebounceStart, Nil standing for an absent key. wellTyped says
\* whether every value of the document decodes into the Go type it is decoded
\* into ([]Progress, *time.Time); a scalar decodes into neither form.
OptSnapshots == {Nil} \cup {Some(s) : s \in Snapshots}

OptTimes == {Nil} \cup {Some(t) : t \in 0..MaxTime}

JsonDocs ==
    [kind : {"array"}, wellTyped : BOOLEAN, items : Snapshots,
     Published : {Nil}, Observed : {Nil}, DebounceStart : {Nil}]
    \cup [kind : {"object"}, wellTyped : BOOLEAN, items : {<<>>},
          Published : OptSnapshots, Observed : OptSnapshots,
          DebounceStart : OptTimes]
    \cup [kind : {"scalar"}, wellTyped : {FALSE}, items : {<<>>},
          Published : {Nil}, Observed : {Nil}, DebounceStart : {Nil}]

\* func (plugin *ProgressPlugin) OffsetPrototype(): ProgressOffset{}
OffsetPrototype == ProgressOffset(<<>>, <<>>, Nil)

\* json.Unmarshal(data, v2): the object form, decoded into p itself; a key the
\* object does not hold leaves p's field as it was.
UnmarshalV2(p, d) ==
    IF d.kind = "object" /\ d.wellTyped
    THEN [err |-> FALSE,
          value |-> ProgressOffset(
                        IF d.Published = Nil THEN p.Published ELSE Get(d.Published),
                        IF d.Observed = Nil THEN p.Observed ELSE Get(d.Observed),
                        IF d.DebounceStart = Nil THEN p.DebounceStart
                        ELSE d.DebounceStart)]
    ELSE [err |-> TRUE, value |-> p]

\* json.Unmarshal(data, &legacyProgress): the bare array form.
UnmarshalLegacy(d) ==
    IF d.kind = "array" /\ d.wellTyped
    THEN [err |-> FALSE, value |-> d.items]
    ELSE [err |-> TRUE, value |-> <<>>]

\* Mutant of LegacyOffset: only Published is taken from the legacy list.
LegacyOffsetPublishedOnly(legacyProgress) ==
    [Published |-> legacyProgress, Observed |-> <<>>, DebounceStart |-> Nil]

\* Convert legacy format to new format.
LegacyOffset(legacyProgress) ==
    ProgressOffset(legacyProgress, legacyProgress, Nil)

\* func (p *ProgressOffset) UnmarshalJSON(data []byte) error: the new format
\* first, then the legacy one.
UnmarshalJSON(p, d) ==
    LET v2 == UnmarshalV2(p, d)
        legacy == UnmarshalLegacy(d)
    IN  IF ~v2.err THEN v2
        ELSE IF legacy.err THEN [err |-> TRUE, value |-> p]
        ELSE [err |-> FALSE, value |-> LegacyOffset(legacy.value)]

\* json.Unmarshal(rawOffset, offsetRef.Interface()) on a fresh prototype.
Decode ==
    /\ decoded = Nil
    /\ decoded' = Some(UnmarshalJSON(OffsetPrototype, data))
    /\ UNCHANGED <<data, pollVars, diffVars, rapidVars, runVars, pureVars>>

InitDecode ==
    /\ data \in JsonDocs
    /\ decoded = Nil
    /\ offset = ProgressOffset(<<>>, <<>>, Nil)
    /\ DebounceDelay = 0
    /\ clock = 0
    /\ page = Nil
    /\ sent = Nil
    /\ err = ""
    /\ detectedAt = Nil
    /\ steady = FALSE
    /\ wasDebouncing = FALSE
    /\ dropped = {}
    /\ reappeared = FALSE
    /\ sendCalls = <<>>
    /\ old = <<>>
    /\ new = <<>>
    /\ result = Nil
    /\ called = FALSE
    /\ RapidIdle
    /\ RunIdle
    /\ PureIdle

NextDecode == Decode

SpecDecode == InitDecode /\ [][NextDecode]_vars

\* -------------------------------------------------------- run coordinator
\* What the configuration file can hold for a connector: a known plugin whose
\* Validate accepts the configuration, a plugin name AvailablePlugins does not
\* hold, or a configuration that Decode or Validate rejects.
ConfigKinds == {"valid", "unknownPlugin", "invalid"}

\* A stored offset is a raw JSON value: "v0" decodes into the plugin's offset
\* type, "bad" does not. "v1" is an offset a Check of this run returns and
\* "null" the nil offset of a connector without a stored one.
RawValues == {"v0", "bad"}

\* The offsets files the run can find: any keys, any values.
OffsetFiles == UNION {[K -> RawValues] : K \in SUBSET (Conns \cup Orphans)}

\* Mutant of LoadError: a connector that fails validation is loaded anyway.
LoadIgnoresInvalid(cfg) == FALSE

\* ConfigLoader.Load returns an error at the first connector whose plugin is
\* unknown or whose configuration is rejected.
LoadError(cfg) == \E c \in Conns : cfg[c] # "valid"

\* Mutant of StoreOldOffsets: only the configured connectors' offsets are kept.
StoreOnlyConfigured(raw) == [k \in DOMAIN raw \cap Conns |-> raw[k]]

\* for connector, offset := range rawOffsets { workingOffsets.Store(...) }
StoreOldOffsets(raw) == raw

\* Mutant of Store: a key that has a value keeps it.
StoreKeepsFirst(m, key, value) ==
    [k \in DOMAIN m \cup {key} |-> IF k \in DOMAIN m THEN m[k] ELSE value]

\* workingOffsets.Store(key, value)
Store(m, key, value) ==
    [k \in DOMAIN m \cup {key} |-> IF k = key THEN value ELSE m[k]]

\* What json.Unmarshal leaves in the prototype: the decoded offset, or a
\* partly filled prototype when the document was rejected.
Unmarshalled(raw) == IF raw = "bad" THEN "partial" ELSE raw

\* The offsets Check can return, with or without an error: the one it was
\* given or a new one.
CheckReturn(off) == {off, "v1"}

\* The process has not exited: its tasks can still run.
Running == mainPc \notin {"done", "fatal"}

\* config, err := configLoader.Load(*configPath); Fatalf on error.
LoadConfig ==
    /\ mainPc = "load"
    /\ \E cfg \in [Conns -> ConfigKinds] :
           /\ config' = cfg
           /\ IF LoadError(cfg)
              THEN mainPc' = "fatal" /\ exitStatus' = 1
              ELSE mainPc' = "offsets" /\ UNCHANGED exitStatus
    /\ UNCHANGED <<current, visited, wg, sharedErr, errored, collectorPc, taskPc,
                   given, newOffset, rawOffsets, workingOffsets, offsetsFile,
                   initInvoked, initFailed, checkInvoked, checkFailed, sentBy>>
    /\ UNCHANGED <<pollVars, diffVars, rapidVars, jsonVars, pureVars>>

\* The offsets file is read and parsed (a missing file is {}), wg.Add is
\* called and the old offsets are stored in workingOffsets.
ReadOffsets ==
    /\ mainPc = "offsets"
    /\ \E f \in OffsetFiles :
           /\ rawOffsets' = f
           /\ workingOffsets' = StoreOldOffsets(f)
    /\ wg' = Cardinality(Conns)
    /\ mainPc' = "loop"
    /\ UNCHANGED <<config, current, visited, sharedErr, errored, collectorPc, taskPc,
                   given, newOffset, offsetsFile, exitStatus, initInvoked,
                   initFailed, checkInvoked, checkFailed, sentBy>>
    /\ UNCHANGED <<pollVars, diffVars, rapidVars, jsonVars, pureVars>>

\* The offsets file cannot be read or is not a JSON object: Fatalf.
ReadOffsetsFatal ==
    /\ mainPc = "offsets"
    /\ mainPc' = "fatal"
    /\ exitStatus' = 1
    /\ UNCHANGED <<config, current, visited, wg, sharedErr, errored, collectorPc,
                   taskPc, given, newOffset, rawOffsets, workingOffsets,
                   offsetsFile, initInvoked, initFailed, checkInvoked,
                   checkFailed, sentBy>>
    /\ UNCHANGED <<pollVars, diffVars, rapidVars, jsonVars, pureVars>>

\* err = (*connector.Plugin).Init(): the next connector's Init is invoked and
\* its result is written to main's err.
CallInit(c) ==
    /\ mainPc = "loop"
    /\ c \in Conns \ visited
    /\ current' = c
    /\ initInvoked' = initInvoked \cup {c}
    /\ \E ok \in BOOLEAN :
           /\ sharedErr' = IF ok THEN "nil" ELSE "init"
           /\ initFailed' = IF ok THEN initFailed ELSE initFailed \cup {c}
    /\ mainPc' = "initRead"
    /\ UNCHANGED <<config, visited, wg, errored, collectorPc, taskPc, given,
                   newOffset, rawOffsets, workingOffsets, offsetsFile,
                   exitStatus, checkInvoked, checkFailed, sentBy>>
    /\ UNCHANGED <<pollVars, diffVars, rapidVars, jsonVars, pureVars>>

\* if err != nil { continue }; go func() {...}(): main reads err; a non-nil
\* value skips the connector, without wg.Done; else its task is started.
AfterInit ==
    /\ mainPc = "initRead"
    /\ visited' = visited \cup {current}
    /\ taskPc' = IF sharedErr # "nil" THEN taskPc
                 ELSE [taskPc EXCEPT ![current] = "start"]
    /\ mainPc' = "loop"
    /\ UNCHANGED <<config, current, wg, sharedErr, errored, collectorPc, given,
                   newOffset, rawOffsets, workingOffsets, offsetsFile,
                   exitStatus, initInvoked, initFailed, checkInvoked,
                   checkFailed, sentBy>>
    /\ UNCHANGED <<pollVars, diffVars, rapidVars, jsonVars, pureVars>>

\* The loop is over: errored := false, the collector task is started and main
\* goes to wg.Wait().
StartCollector ==
    /\ mainPc = "loop"
    /\ visited = Conns
    /\ errored' = FALSE
    /\ collectorPc' = "recv"
    /\ mainPc' = "wait"
    /\ UNCHANGED <<config, current, visited, wg, sharedErr, taskPc, given, newOffset,
                   rawOffsets, workingOffsets, offsetsFile, exitStatus,
                   initInvoked, initFailed, checkInvoked, checkFailed, sentBy>>
    /\ UNCHANGED <<pollVars, diffVars, rapidVars, jsonVars, pureVars>>

\* wg.Wait() returns, workingOffsets is serialized and written to the file. A
\* failing write ends the process with Fatalf.
WriteOffsets ==
    /\ mainPc = "wait"
    /\ wg = 0
    /\ \E ok \in BOOLEAN :
           IF ok
           THEN /\ offsetsFile' = Some(workingOffsets)
                /\ mainPc' = "exit"
                /\ UNCHANGED exitStatus
           ELSE /\ mainPc' = "fatal"
                /\ exitStatus' = 1
                /\ UNCHANGED offsetsFile
    /\ UNCHANGED <<config, current, visited, wg, sharedErr, errored, collectorPc,
                   taskPc, given, newOffset, rawOffsets, workingOffsets,
                   initInvoked, initFailed, checkInvoked, checkFailed, sentBy>>
    /\ UNCHANGED <<pollVars, diffVars, rapidVars, jsonVars, pureVars>>

\* if errored { errorLog.Fatal(...) }: main reads errored and exits.
Exit ==
    /\ mainPc = "exit"
    /\ exitStatus' = IF errored THEN 1 ELSE 0
    /\ mainPc' = "done"
    /\ UNCHANGED <<config, current, visited, wg, sharedErr, errored, collectorPc,
                   taskPc, given, newOffset, rawOffsets, workingOffsets,
                   offsetsFile, initInvoked, initFailed, checkInvoked,
                   checkFailed, sentBy>>
    /\ UNCHANGED <<pollVars, diffVars, rapidVars, jsonVars, pureVars>>

\* The task looks up its stored offset; if there is one, json.Unmarshal's
\* result is written to main's err, which the closure captured.
TaskUnmarshal(c) ==
    /\ Running
    /\ taskPc[c] = "start"
    /\ IF c \in DOMAIN rawOffsets
       THEN /\ sharedErr' = IF rawOffsets[c] = "bad" THEN "parse" ELSE "nil"
            /\ taskPc' = [taskPc EXCEPT ![c] = "unmarshalled"]
       ELSE /\ taskPc' = [taskPc EXCEPT ![c] = "check"]
            /\ UNCHANGED sharedErr
    /\ UNCHANGED <<mainPc, config, current, visited, wg, errored, collectorPc, given,
                   newOffset, rawOffsets, workingOffsets, offsetsFile,
                   exitStatus, initInvoked, initFailed, checkInvoked,
                   checkFailed, sentBy>>
    /\ UNCHANGED <<pollVars, diffVars, rapidVars, jsonVars, pureVars>>

\* ; err != nil: the task reads main's err. Non-nil: it goes to send on
\* erroredChannel and return; nil: the prototype is the offset for Check.
TaskReadErr(c) ==
    /\ Running
    /\ taskPc[c] = "unmarshalled"
    /\ IF sharedErr # "nil"
       THEN /\ taskPc' = [taskPc EXCEPT ![c] = "sendParse"]
            /\ UNCHANGED given
       ELSE /\ taskPc' = [taskPc EXCEPT ![c] = "check"]
            /\ given' = [given EXCEPT ![c] = Unmarshalled(rawOffsets[c])]
    /\ UNCHANGED <<mainPc, config, current, visited, wg, sharedErr, errored,
                   collectorPc, newOffset, rawOffsets, workingOffsets,
                   offsetsFile, exitStatus, initInvoked, initFailed,
                   checkInvoked, checkFailed, sentBy>>
    /\ UNCHANGED <<pollVars, diffVars, rapidVars, jsonVars, pureVars>>

\* newOffset, err := (*connector.Plugin).Check(offset, pluginContext): Check
\* may send a message, and returns an offset and possibly an error (its own
\* err, declared by :=).
TaskCheck(c) ==
    /\ Running
    /\ taskPc[c] = "check"
    /\ checkInvoked' = checkInvoked \cup {c}
    /\ \E fails \in BOOLEAN, sends \in BOOLEAN, returned \in CheckReturn(given[c]) :
           /\ newOffset' = [newOffset EXCEPT ![c] = returned]
           /\ checkFailed' = IF fails THEN checkFailed \cup {c} ELSE checkFailed
           /\ sentBy' = IF sends THEN sentBy \cup {c} ELSE sentBy
           /\ taskPc' = [taskPc EXCEPT ![c] = IF fails THEN "sendCheck" ELSE "store"]
    /\ UNCHANGED <<mainPc, config, current, visited, wg, sharedErr, errored,
                   collectorPc, given, rawOffsets, workingOffsets, offsetsFile,
                   exitStatus, initInvoked, initFailed>>
    /\ UNCHANGED <<pollVars, diffVars, rapidVars, jsonVars, pureVars>>

\* erroredChannel <- nil meets case <-erroredChannel: the channel is unbuffered,
\* so the task waits for the collector. After a parse error the task returns
\* (deferred wg.Done); after a Check error it goes on to store the offset.
Receive(c) ==
    /\ Running
    /\ taskPc[c] \in {"sendParse", "sendCheck"}
    /\ collectorPc = "recv"
    /\ collectorPc' = "set"
    /\ IF taskPc[c] = "sendParse"
       THEN /\ taskPc' = [taskPc EXCEPT ![c] = "done"]
            /\ wg' = wg - 1
       ELSE /\ taskPc' = [taskPc EXCEPT ![c] = "store"]
            /\ UNCHANGED wg
    /\ UNCHANGED <<mainPc, config, current, visited, sharedErr, errored, given,
                   newOffset, rawOffsets, workingOffsets, offsetsFile,
                   exitStatus, initInvoked, initFailed, checkInvoked,
                   checkFailed, sentBy>>
    /\ UNCHANGED <<pollVars, diffVars, rapidVars, jsonVars, pureVars>>

\* errored = true, in the collector task after a receive.
CollectorSet ==
    /\ Running
    /\ collectorPc = "set"
    /\ errored' = TRUE
    /\ collectorPc' = "recv"
    /\ UNCHANGED <<mainPc, config, current, visited, wg, sharedErr, taskPc, given,
                   newOffset, rawOffsets, workingOffsets, offsetsFile,
                   exitStatus, initInvoked, initFailed, checkInvoked,
                   checkFailed, sentBy>>
    /\ UNCHANGED <<pollVars, diffVars, rapidVars, jsonVars, pureVars>>

\* workingOffsets.Store(connector.Name, newOffset), then the deferred wg.Done.
TaskStore(c) ==
    /\ Running
    /\ taskPc[c] = "store"
    /\ workingOffsets' = Store(workingOffsets, c, newOffset[c])
    /\ wg' = wg - 1
    /\ taskPc' = [taskPc EXCEPT ![c] = "done"]
    /\ UNCHANGED <<mainPc, config, current, visited, sharedErr, errored, collectorPc,
                   given, newOffset, rawOffsets, offsetsFile, exitStatus,
                   initInvoked, initFailed, checkInvoked, checkFailed, sentBy>>
    /\ UNCHANGED <<pollVars, diffVars, rapidVars, jsonVars, pureVars>>

InitRun ==
    /\ RunIdle
    /\ PureIdle
    /\ offset = ProgressOffset(<<>>, <<>>, Nil)
    /\ DebounceDelay = 0
    /\ clock = 0
    /\ page = Nil
    /\ sent = Nil
    /\ err = ""
    /\ detectedAt = Nil
    /\ steady = FALSE
    /\ wasDebouncing = FALSE
    /\ dropped = {}
    /\ reappeared = FALSE
    /\ sendCalls = <<>>
    /\ old = <<>>
    /\ new = <<>>
    /\ result = Nil
    /\ called = FALSE
    /\ RapidIdle
    /\ JsonIdle

NextRun ==
    \/ LoadConfig
    \/ ReadOffsets
    \/ ReadOffsetsFatal
    \/ \E c \in Conns : CallInit(c)
    \/ AfterInit
    \/ StartCollector
    \/ WriteOffsets
    \/ Exit
    \/ \E c \in Conns : TaskUnmarshal(c)
    \/ \E c \in Conns : TaskReadErr(c)
    \/ \E c \in Conns : TaskCheck(c)
    \/ \E c \in Conns : Receive(c)
    \/ CollectorSet
    \/ \E c \in Conns : TaskStore(c)

SpecRun == InitRun /\ [][NextRun]_vars

\* ------------------------------------------ serializing a returned offset
\* Mutant of MarshalOffset: DebounceStart is always written as null.
MarshalDropsDebounce(o) ==
    [kind |-> "object", wellTyped |-> TRUE, items |-> <<>>,
     Published |-> Some(o.Published), Observed |-> Some(o.Observed),
     DebounceStart |-> Nil]

\* json.Marshal of a ProgressOffset inside newOffsets: an object holding the
\* three fields, DebounceStart as null (Nil) or as the text of the instant.
MarshalOffset(o) ==
    [kind |-> "object", wellTyped |-> TRUE, items |-> <<>>,
     Published |-> Some(o.Published), Observed |-> Some(o.Observed),
     DebounceStart |-> o.DebounceStart]

\* A legacy offsets file entry: the bare list of progress bars.
LegacyDoc(legacyProgress) ==
    [kind |-> "array", wellTyped |-> TRUE, items |-> legacyProgress,
     Published |-> Nil, Observed |-> Nil, DebounceStart |-> Nil]

\* The offset the next run decodes from what this run wrote for o.
RoundTrip(o) == UnmarshalJSON(OffsetPrototype, MarshalOffset(o))

\* --------------------------------------------- merging shared configuration
\* The keys of a connector's configuration and of a nested map in it, and the
\* scalar values a key can have.
CfgKeys == {"url", "opts"}

SubKeys == {"k"}

Scalars == {"c", "s"}

\* A map of the configuration without keys.
NoMap == [k \in {} |-> 0]

\* A value of map[string]interface{}: a scalar or a nested map.
ScalarValue(v) == [kind |-> "scalar", scalar |-> v, map |-> NoMap]

MapValue(f) == [kind |-> "map", scalar |-> "", map |-> f]

\* The maps that define some of the keys, with values of the given set.
MapsOver(keys, values) == UNION {[K -> values] : K \in SUBSET keys}

NestedMaps == MapsOver(SubKeys, {ScalarValue(v) : v \in Scalars})

ConfigValues ==
    {ScalarValue(v) : v \in Scalars} \cup {MapValue(f) : f \in NestedMaps}

\* rawConnector.Config and config.SharedPluginConfigs[plugin]: a map, or nil
\* when the file has no such section.
ConfigMaps == {Nil} \cup {Some(f) : f \in MapsOver(CfgKeys, ConfigValues)}

\* func mergeKeys(left, right m) m. The type assertions leftVal.(m) and
\* rightVal.(m) panic on a value that is not a map; panic reports that, and the
\* function then has no value.
RECURSIVE mergeKeys(_, _)

mergeKeys(left, right) ==
    IF left = Nil THEN [panic |-> FALSE, value |-> right]
    ELSE LET l == Get(left)
             r == IF right = Nil THEN NoMap ELSE Get(right)
             both == DOMAIN l \cap DOMAIN r
             sub(k) == mergeKeys(Some(l[k].map), Some(r[k].map))
         IN  IF \E k \in both : l[k].kind # "map" \/ r[k].kind # "map"
             THEN [panic |-> TRUE, value |-> Nil]
             ELSE IF \E k \in both : sub(k).panic
             THEN [panic |-> TRUE, value |-> Nil]
             ELSE [panic |-> FALSE,
                   value |-> Some([k \in DOMAIN l \cup DOMAIN r |->
                                     IF k \in both THEN MapValue(Get(sub(k).value))
                                     ELSE IF k \in DOMAIN l THEN l[k]
                                     ELSE r[k]])]

\* rawConnector.Config = mergeKeys(rawConnector.Config, sharedConfig)
CallMergeKeys ==
    /\ mergeArgs # Nil
    /\ merged = Nil
    /\ merged' = Some(mergeKeys(Get(mergeArgs).left, Get(mergeArgs).right))
    /\ UNCHANGED <<mergeArgs, atomVars, validateVars, renderVars, firstVars, sendVars>>
    /\ UNCHANGED <<pollVars, diffVars, rapidVars, jsonVars, runVars>>

\* Nothing of the poll machine or of diff is being examined.
PollIdle ==
    /\ offset = ProgressOffset(<<>>, <<>>, Nil)
    /\ DebounceDelay = 0
    /\ clock = 0
    /\ page = Nil
    /\ sent = Nil
    /\ err = ""
    /\ detectedAt = Nil
    /\ steady = FALSE
    /\ wasDebouncing = FALSE
    /\ dropped = {}
    /\ reappeared = FALSE
    /\ sendCalls = <<>>
    /\ old = <<>>
    /\ new = <<>>
    /\ result = Nil
    /\ called = FALSE

InitMerge ==
    /\ mergeArgs \in {Some([left |-> l, right |-> r]) : l \in ConfigMaps, r \in ConfigMaps}
    /\ merged = Nil
    /\ atomArgs = Nil
    /\ atomOut = Nil
    /\ plugin = Nil
    /\ validated = Nil
    /\ progressBars = <<>>
    /\ rendered = Nil
    /\ firstDone = FALSE
    /\ rawReturned = Nil
    /\ SendIdle
    /\ PollIdle
    /\ RapidIdle
    /\ JsonIdle
    /\ RunIdle

NextMerge == CallMergeKeys

SpecMerge == InitMerge /\ [][NextMerge]_vars

\* -------------------------------------------------- ProgressPlugin.Validate
\* Values of the configured fields: the empty string is a field the
\* configuration leaves out.
Urls == {"", "https://example.com", "https://test.com", "https://brandonsanderson.com"}

Messages == {"", "Progress updated", "Progress updated!"}

ProgressPlugins ==
    [Url : Urls, Message : Messages, DebounceDelay : (0 - MaxDelay)..MaxDelay]

\* Mutant of Validate: a zero DebounceDelay is rejected as well.
ValidateRejectsZero(p) ==
    IF p.Url = "" THEN "URL for progress updates must not be empty"
    ELSE IF p.Message = "" THEN "message for progress updates must not be empty"
    ELSE IF p.DebounceDelay <= 0 THEN "debounce delay must not be negative"
    ELSE ""

\* func (plugin *ProgressPlugin) Validate() error: the error's text, "" for nil.
Validate(p) ==
    IF p.Url = "" THEN "URL for progress updates must not be empty"
    ELSE IF p.Message = "" THEN "message for progress updates must not be empty"
    ELSE IF p.DebounceDelay < 0 THEN "debounce delay must not be negative"
    ELSE ""

\* err = plugin.Validate()
CallValidate ==
    /\ plugin # Nil
    /\ validated = Nil
    /\ validated' = Some(Validate(Get(plugin)))
    /\ UNCHANGED <<plugin, mergeVars, atomVars, renderVars, firstVars, sendVars>>
    /\ UNCHANGED <<pollVars, diffVars, rapidVars, jsonVars, runVars>>

InitValidate ==
    /\ plugin \in {Some(p) : p \in ProgressPlugins}
    /\ validated = Nil
    /\ mergeArgs = Nil
    /\ merged = Nil
    /\ atomArgs = Nil
    /\ atomOut = Nil
    /\ progressBars = <<>>
    /\ rendered = Nil
    /\ firstDone = FALSE
    /\ rawReturned = Nil
    /\ SendIdle
    /\ PollIdle
    /\ RapidIdle
    /\ JsonIdle
    /\ RunIdle

NextValidate == CallValidate

SpecValidate == InitValidate /\ [][NextValidate]_vars

\* --------------------------------------------------------- AtomPlugin.Check
\* Entry IDs, and what Check learns about an entry: its age when it is looked
\* at, and what HasExcludedTag returns for its link (or that it fails).
AtomIDs == {"e1", "e2"}

AtomAges == {0, 1, 2}

AtomTags == {"none", "excluded", "error"}

AtomEntries == [ID : AtomIDs, age : AtomAges, tag : AtomTags]

\* What the fetch yields: an HTTP error, a 404, a document that does not parse
\* ("getError", "notFound", "parseError" with no entries), or the entries.
AtomFeeds ==
    [kind : {"getError", "notFound", "parseError"}, entries : {<<>>}]
    \cup [kind : {"feed"}, entries : UNION {[1..n -> AtomEntries] : n \in 0..MaxFeed}]

\* The offset: nil, or a map[string]bool from entry IDs.
AtomOffsets == {Nil} \cup {Some(m) : m \in MapsOver(AtomIDs, BOOLEAN)}

\* MinAge and MaxAge: nil or a duration.
AtomAgeLimits == {Nil, Some(1)}

\* handledEntries[key] = value
Put(m, key, value) ==
    [k \in DOMAIN m \cup {key} |-> IF k = key THEN value ELSE m[k]]

\* Mutant of Handled: an ID that is in the offset counts as handled.
HandledIfPresent(m, id) == id \in DOMAIN m

\* handled, present := handledEntries[entry.ID]; present && handled
Handled(m, id) == id \in DOMAIN m /\ m[id]

\* The first loop, from entry i on: entries already handled are skipped, those
\* with an excluded tag are marked handled, the others are prepended to posts.
\* failed says that HasExcludedTag returned an error, which ends Check.
RECURSIVE CollectPosts(_, _, _, _)

CollectPosts(entries, i, handled, posts) ==
    IF i > Len(entries) THEN [handled |-> handled, posts |-> posts, failed |-> FALSE]
    ELSE IF Handled(handled, entries[i].ID)
         THEN CollectPosts(entries, i + 1, handled, posts)
    ELSE IF entries[i].tag = "error"
         THEN [handled |-> handled, posts |-> posts, failed |-> TRUE]
    ELSE IF entries[i].tag = "excluded"
         THEN CollectPosts(entries, i + 1, Put(handled, entries[i].ID, TRUE), posts)
    ELSE CollectPosts(entries, i + 1, handled, <<entries[i]>> \o posts)

\* sort.Sort(ByTimestamp(sortedEntries)): oldest first; a slice this short is
\* sorted by insertion, which keeps the order of posts of the same age.
SortByTimestamp(posts) ==
    LET rank(i) == Cardinality({j \in 1..Len(posts) :
                        \/ posts[j].age > posts[i].age
                        \/ (posts[j].age = posts[i].age /\ j < i)}) + 1
    IN  [r \in 1..Len(posts) |-> posts[CHOOSE i \in 1..Len(posts) : rank(i) = r]]

\* The second loop, from post i on: posts too new are left for later, posts
\* too old are marked handled, the others are sent and marked handled. The
\* Send call number failAt fails and ends Check (0: no call fails).
RECURSIVE SendPosts(_, _, _, _, _, _, _)

SendPosts(posts, i, handled, sentIDs, minAge, maxAge, failAt) ==
    IF i > Len(posts) THEN [handled |-> handled, sent |-> sentIDs, err |-> ""]
    ELSE IF minAge # Nil /\ posts[i].age < Get(minAge)
         THEN SendPosts(posts, i + 1, handled, sentIDs, minAge, maxAge, failAt)
    ELSE IF maxAge # Nil /\ posts[i].age > Get(maxAge)
         THEN SendPosts(posts, i + 1, Put(handled, posts[i].ID, TRUE), sentIDs,
                        minAge, maxAge, failAt)
    ELSE IF Len(sentIDs) + 1 = failAt
         THEN [handled |-> handled, sent |-> sentIDs, err |-> "send"]
    ELSE SendPosts(posts, i + 1, Put(handled, posts[i].ID, TRUE),
                   Append(sentIDs, posts[i].ID), minAge, maxAge, failAt)

\* Mutant of AtomCheck: after a failed Send the given offset is returned.
AtomCheckForgets(a) ==
    LET start == IF a.offset = Nil THEN NoMap ELSE Get(a.offset)
        c == CollectPosts(a.feed.entries, 1, start, <<>>)
        s == SendPosts(SortByTimestamp(c.posts), 1, c.handled, <<>>,
                       a.minAge, a.maxAge, a.failAt)
    IN  IF a.feed.kind # "feed" \/ Len(a.feed.entries) = 0 \/ c.failed
           \/ Len(c.posts) = 0
        THEN [offset |-> IF a.feed.kind # "feed" \/ Len(a.feed.entries) = 0
                         \/ a.offset = Nil
                         THEN a.offset ELSE Some(c.handled),
              sent |-> <<>>,
              err |-> IF a.feed.kind \in {"getError", "parseError"} THEN a.feed.kind
                      ELSE IF a.feed.kind = "feed" /\ Len(a.feed.entries) > 0 /\ c.failed
                      THEN "tag" ELSE ""]
        ELSE [offset |-> IF s.err = "send" THEN a.offset ELSE Some(s.handled),
              sent |-> s.sent, err |-> s.err]

\* func (plugin *AtomPlugin) Check(offset, context): the returned offset, the
\* IDs of the entries sent, in order, and the error. handledEntries is the
\* offset's own map when an offset is given, so returning offset returns that
\* map as changed so far; without an offset it returns nil.
AtomCheck(a) ==
    LET start == IF a.offset = Nil THEN NoMap ELSE Get(a.offset)
        offsetAs(handled) == IF a.offset = Nil THEN Nil ELSE Some(handled)
    IN  IF a.feed.kind \in {"getError", "parseError"}
        THEN [offset |-> a.offset, sent |-> <<>>, err |-> a.feed.kind]
        ELSE IF a.feed.kind = "notFound" \/ Len(a.feed.entries) = 0
        THEN [offset |-> a.offset, sent |-> <<>>, err |-> ""]
        ELSE LET c == CollectPosts(a.feed.entries, 1, start, <<>>)
             IN  IF c.failed
                 THEN [offset |-> offsetAs(c.handled), sent |-> <<>>, err |-> "tag"]
                 ELSE IF Len(c.posts) = 0
                 THEN [offset |-> offsetAs(c.handled), sent |-> <<>>, err |-> ""]
                 ELSE LET s == SendPosts(SortByTimestamp(c.posts), 1, c.handled,
                                         <<>>, a.minAge, a.maxAge, a.failAt)
                      IN  [offset |-> Some(s.handled), sent |-> s.sent, err |-> s.err]

\* newOffset, err := (*connector.Plugin).Check(offset, pluginContext)
CallAtomCheck ==
    /\ atomArgs # Nil
    /\ atomOut = Nil
    /\ atomOut' = Some(AtomCheck(Get(atomArgs)))
    /\ UNCHANGED <<atomArgs, mergeVars, validateVars, renderVars, firstVars, sendVars>>
    /\ UNCHANGED <<pollVars, diffVars, rapidVars, jsonVars, runVars>>

InitAtom ==
    /\ atomArgs \in {Some(a) : a \in [offset : AtomOffsets, feed : AtomFeeds,
                                      minAge : AtomAgeLimits, maxAge : AtomAgeLimits,
                                      failAt : 0..MaxFeed]}
    /\ atomOut = Nil
    /\ mergeArgs = Nil
    /\ merged = Nil
    /\ plugin = Nil
    /\ validated = Nil
    /\ progressBars = <<>>
    /\ rendered = Nil
    /\ firstDone = FALSE
    /\ rawReturned = Nil
    /\ SendIdle
    /\ PollIdle
    /\ RapidIdle
    /\ JsonIdle
    /\ RunIdle

NextAtom == CallAtomCheck

SpecAtom == InitAtom /\ [][NextAtom]_vars

\* --------------------------------------------------- progressRenderer.Render
\* The rendered message is a sequence of pieces of text: a title, a link and
\* each character the renderer writes around them is one piece. "<full>" and
\* "<empty>" are the block characters U+2588 and U+2591, "% -> " holds the
\* arrow U+2192, "<nl>" is a line feed, "<nl><nl>" two of them, and "<tick>" a backquote.
RenderLinks == {"", "l"}

ProgressDiffs ==
    [Title : Titles, Link : RenderLinks, OldValue : Values, Value : Values,
     New : BOOLEAN]

\* The lists Render is examined on: every list of at most MaxLen records, and
\* one record of every percentage up to MaxPercent.
RenderInputs ==
    UNION {[1..n -> ProgressDiffs] : n \in 0..MaxLen}
    \cup {<<[Title |-> "A", Link |-> "", OldValue |-> o, Value |-> v, New |-> n]>> :
            o \in Values, v \in 0..MaxPercent, n \in BOOLEAN}

\* const blockCount = 100 / blockSize
blockCount == 1000 \div blockSizeTenths

DigitChars == <<"0", "1", "2", "3", "4", "5", "6", "7", "8", "9">>

\* fmt's %d
RECURSIVE Digits(_)

Digits(n) ==
    IF n < 0 THEN <<"-">> \o Digits(0 - n)
    ELSE IF n < 10 THEN <<DigitChars[n + 1]>>
    ELSE Digits(n \div 10) \o <<DigitChars[(n % 10) + 1]>>

\* fmt's %3d: padded with spaces on the left to a width of three.
Digits3(n) ==
    LET d == Digits(n)
    IN  [i \in 1..(IF Len(d) < 3 THEN 3 - Len(d) ELSE 0) |-> " "] \o d

\* strings.Repeat(s, count) for a count that is not negative.
Repeat(s, count) == [i \in 1..count |-> s]

\* Mutant of RenderTitle: a changed value is looked at before New.
RenderTitleChangedFirst(progress) ==
    LET title == IF progress.Link # ""
                 THEN <<"[", progress.Title, "](", progress.Link, ")">>
                 ELSE <<progress.Title>>
    IN  IF progress.Value # progress.OldValue
        THEN <<"[Changed] ">> \o title \o <<" (">> \o Digits(progress.OldValue)
             \o <<"% -> ">> \o Digits(progress.Value) \o <<"%)">>
        ELSE IF progress.New THEN <<"[New] ">> \o title
        ELSE title

\* The title Render writes between the two "**".
RenderTitle(progress) ==
    LET title == IF progress.Link # ""
                 THEN <<"[", progress.Title, "](", progress.Link, ")">>
                 ELSE <<progress.Title>>
    IN  IF progress.New THEN <<"[New] ">> \o title
        ELSE IF progress.Value # progress.OldValue
        THEN <<"[Changed] ">> \o title \o <<" (">> \o Digits(progress.OldValue)
             \o <<"% -> ">> \o Digits(progress.Value) \o <<"%)">>
        ELSE title

\* Mutant of FullBlocks: rounds to the nearest block.
FullBlocksRounded(value) == (10 * value + 12) \div blockSizeTenths

\* fullBlocks := int(math.Floor(float64(progress.Value) / blockSize)). Every
\* quotient by 2.5 that is not a whole number is at least 0.2 away from one,
\* so the rounding of the float64 division never changes the floor.
FullBlocks(value) == (10 * value) \div blockSizeTenths

\* strings.Repeat panics on a negative count.
RenderPanics(progress) ==
    FullBlocks(progress.Value) < 0 \/ blockCount - FullBlocks(progress.Value) < 0

\* What Render writes for one record.
RenderOne(progress) ==
    <<"**">> \o RenderTitle(progress) \o <<"**", "<nl>">>
    \o <<"<tick>">> \o Repeat("<full>", FullBlocks(progress.Value))
    \o Repeat("<empty>", blockCount - FullBlocks(progress.Value))
    \o <<" ">> \o Digits3(progress.Value) \o <<"%", "<tick>">>

RECURSIVE RenderFrom(_, _)

RenderFrom(bars, i) ==
    IF i > Len(bars) THEN <<>>
    ELSE (IF i # 1 THEN <<"<nl><nl>">> ELSE <<>>) \o RenderOne(bars[i])
         \o RenderFrom(bars, i + 1)

\* func (r progressRenderer) Render(progressBars []ProgressDiff) string
Render(bars) ==
    IF \E i \in 1..Len(bars) : RenderPanics(bars[i])
    THEN [panic |-> TRUE, text |-> <<>>]
    ELSE [panic |-> FALSE, text |-> RenderFrom(bars, 1)]

\* renderer.Render(s.changes)
CallRender ==
    /\ rendered = Nil
    /\ rendered' = Some(Render(progressBars))
    /\ UNCHANGED <<progressBars, mergeVars, atomVars, validateVars, firstVars, sendVars>>
    /\ UNCHANGED <<pollVars, diffVars, rapidVars, jsonVars, runVars>>

InitRender ==
    /\ progressBars \in RenderInputs
    /\ rendered = Nil
    /\ mergeArgs = Nil
    /\ merged = Nil
    /\ atomArgs = Nil
    /\ atomOut = Nil
    /\ plugin = Nil
    /\ validated = Nil
    /\ firstDone = FALSE
    /\ rawReturned = Nil
    /\ SendIdle
    /\ PollIdle
    /\ RapidIdle
    /\ JsonIdle
    /\ RunIdle

NextRender == CallRender

SpecRender == InitRender /\ [][NextRender]_vars

\* ------------------------------------------------------------- the first run
\* Mutant of OffsetOf: the offset of a first run has a debounce under way.
OffsetOfNilDebouncing(rawOffset) ==
    IF rawOffset = Nil THEN ProgressOffset(<<>>, <<>>, Some(0)) ELSE Get(rawOffset)

\* var offset ProgressOffset; if rawOffset != nil { offset = rawOffset.(ProgressOffset) }
OffsetOf(rawOffset) ==
    IF rawOffset = Nil THEN ProgressOffset(<<>>, <<>>, Nil) ELSE Get(rawOffset)

\* Check as main calls it, the offset an interface value that may be nil: when
\* the fetch or the parse fails Check returns rawOffset itself, otherwise a
\* ProgressOffset.
CheckRaw(rawOffset, now, fetched, sendOk) ==
    LET r == CheckOutcome(OffsetOf(rawOffset), now, fetched, sendOk)
    IN  [offset |-> IF r.err = "fetch" THEN rawOffset ELSE Some(r.offset),
         sent |-> r.sent, err |-> r.err]

\* The Check of a connector that has no entry in the offsets file.
FirstCheck ==
    /\ ~firstDone
    /\ \E now \in 1..MaxTime :
         \E fetched \in {Nil} \cup {Some(s) : s \in Snapshots} :
           \E sendOk \in SendOutcomes(OffsetOf(Nil), now, fetched) :
             LET r == CheckRaw(Nil, now, fetched, sendOk)
             IN  /\ rawReturned' = r.offset
                 /\ sent' = r.sent
                 /\ err' = r.err
                 /\ clock' = now
                 /\ page' = fetched
    /\ firstDone' = TRUE
    /\ UNCHANGED <<offset, DebounceDelay, detectedAt, steady, wasDebouncing,
                   dropped, reappeared, sendCalls>>
    /\ UNCHANGED <<mergeVars, atomVars, validateVars, renderVars, sendVars>>
    /\ UNCHANGED <<diffVars, rapidVars, jsonVars, runVars>>

InitFirst ==
    /\ firstDone = FALSE
    /\ rawReturned = Nil
    /\ SendIdle
    /\ DebounceDelay \in 0..MaxDelay
    /\ offset = ProgressOffset(<<>>, <<>>, Nil)
    /\ clock = 0
    /\ page = Nil
    /\ sent = Nil
    /\ err = ""
    /\ detectedAt = Nil
    /\ steady = FALSE
    /\ wasDebouncing = FALSE
    /\ dropped = {}
    /\ reappeared = FALSE
    /\ sendCalls = <<>>
    /\ old = <<>>
    /\ new = <<>>
    /\ result = Nil
    /\ called = FALSE
    /\ mergeArgs = Nil
    /\ merged = Nil
    /\ atomArgs = Nil
    /\ atomOut = Nil
    /\ plugin = Nil
    /\ validated = Nil
    /\ progressBars = <<>>
    /\ rendered = Nil
    /\ RapidIdle
    /\ JsonIdle
    /\ RunIdle

NextFirst == FirstCheck

SpecFirst == InitFirst /\ [][NextFirst]_vars

\* ------------------------------------------------------- DiscordClient.Send
\* What one http.Post and the reading of its response can yield: an error of
\* Post, an error of ReadAll, a 429 with a body that parses and its
\* retry_after, a 429 with a body that does not parse, a 204, another status.
Responses ==
    [kind : {"postError", "readError", "429bad", "204", "other"}, delay : {0}]
    \cup [kind : {"429"}, delay : 0..MaxRetryAfter]

\* Mutant of Exhausted: one more attempt is made.
ExhaustedLate(try) == try = maxRetries + 1

\* if try == maxRetries
Exhausted(try) == try = maxRetries

\* discord.Send(...) / discord.SendWithCustomAvatar(...): trySend(..., 1)
CallSend ==
    /\ sendState = "idle"
    /\ sendState' = "running"
    /\ sendTry' = 1
    /\ marshals' \in BOOLEAN
    /\ UNCHANGED <<responses, slept>>
    /\ UNCHANGED <<mergeVars, atomVars, validateVars, renderVars, firstVars>>
    /\ UNCHANGED <<pollVars, diffVars, rapidVars, jsonVars, runVars>>

\* One call of trySend up to its return or its call of trySend(..., try+1).
trySend ==
    /\ sendState = "running"
    /\ IF ~marshals
       THEN /\ sendState' = "serialize"
            /\ UNCHANGED <<sendTry, responses, slept>>
       ELSE \E res \in Responses :
              /\ responses' = Append(responses, res)
              /\ CASE res.kind = "postError" ->
                        /\ sendState' = "post"
                        /\ UNCHANGED <<sendTry, slept>>
                   [] res.kind = "readError" ->
                        /\ sendState' = "read"
                        /\ UNCHANGED <<sendTry, slept>>
                   [] res.kind \in {"429", "429bad"} ->
                        IF Exhausted(sendTry)
                        THEN /\ sendState' = "rateLimited"
                             /\ UNCHANGED <<sendTry, slept>>
                        ELSE IF res.kind = "429bad"
                        THEN /\ sendState' = "parse"
                             /\ UNCHANGED <<sendTry, slept>>
                        ELSE /\ slept' = slept + res.delay
                             /\ sendTry' = sendTry + 1
                             /\ UNCHANGED sendState
                   [] res.kind = "204" ->
                        /\ sendState' = "nil"
                        /\ UNCHANGED <<sendTry, slept>>
                   [] OTHER ->
                        /\ sendState' = "status"
                        /\ UNCHANGED <<sendTry, slept>>
    /\ UNCHANGED marshals
    /\ UNCHANGED <<mergeVars, atomVars, validateVars, renderVars, firstVars>>
    /\ UNCHANGED <<pollVars, diffVars, rapidVars, jsonVars, runVars>>

InitSend ==
    /\ SendIdle
    /\ mergeArgs = Nil
    /\ merged = Nil
    /\ atomArgs = Nil
    /\ atomOut = Nil
    /\ plugin = Nil
    /\ validated = Nil
    /\ progressBars = <<>>
    /\ rendered = Nil
    /\ firstDone = FALSE
    /\ rawReturned = Nil
    /\ PollIdle
    /\ RapidIdle
    /\ JsonIdle
    /\ RunIdle

NextSend == CallSend \/ trySend

SpecSend == InitSend /\ [][NextSend]_vars

\* ---------------------------------------------------------- a steady source
\* The lists whose titles are pairwise distinct.
DistinctSnapshots == {s \in Snapshots : Cardinality(TitlesOf(s)) = Len(s)}

\* Offsets a Check can have returned by the instant now, over lists of
\* distinct titles: a debounce is under way exactly when Observed differs from
\* Published, and it started at now or before.
SteadyOffsets(now) ==
    {ProgressOffset(p, o, ds) :
        p \in DistinctSnapshots, o \in DistinctSnapshots,
        ds \in {Nil} \cup {Some(t) : t \in 0..now}}

\* The polls a run is followed for: more than a debounce can last.
SteadyPolls == MaxDelay + 2

\* A poll of a process that is started at fixed intervals while the source
\* stays as it is and Discord accepts every message.
SteadyPoll ==
    /\ source # Nil
    /\ polls < SteadyPolls
    /\ Check(mockNow + sleepDuration, source, TRUE)
    /\ mockNow' = mockNow + sleepDuration
    /\ polls' = polls + 1
    /\ pubs' = pubs + Len(SendCalls(offset, mockNow + sleepDuration, source, TRUE))
    /\ UNCHANGED <<sleepDuration, source, jsonVars, runVars, pureVars>>

\* The source has just settled on a list that differs from the published one;
\* the offset is any that earlier polls can have left.
InitSteady ==
    /\ DebounceDelay \in 1..MaxDelay
    /\ sleepDuration \in 1..(MaxDelay + 1)
    /\ mockNow = MaxDelay
    /\ clock = MaxDelay
    /\ source \in {Some(s) : s \in DistinctSnapshots \ {<<>>}}
    /\ offset \in SteadyOffsets(MaxDelay)
    /\ (offset.DebounceStart = Nil) <=> (diff(offset.Published, offset.Observed) = Nil)
    /\ diff(offset.Published, Get(source)) # Nil
    /\ polls = 0
    /\ pubs = 0
    /\ page = Nil
    /\ sent = Nil
    /\ err = ""
    /\ detectedAt = Nil
    /\ steady = FALSE
    /\ wasDebouncing = FALSE
    /\ dropped = {}
    /\ reappeared = FALSE
    /\ sendCalls = <<>>
    /\ old = <<>>
    /\ new = <<>>
    /\ result = Nil
    /\ called = FALSE
    /\ JsonIdle
    /\ RunIdle
    /\ PureIdle

NextSteady == SteadyPoll

SpecSteady == InitSteady /\ [][NextSteady]_vars

\* The process keeps being started: a poll that can be made is made.
SpecSteadyLive == SpecSteady /\ WF_vars(SteadyPoll)

\* ------------------------------------------------------- pages with links
\* Bars that may carry a link, and lists of them.
LinkedProgress == [Title : Titles, Link : RenderLinks, Value : Values]

LinkedSnapshots == UNION {[1..n -> LinkedProgress] : n \in 1..MaxLen}

\* The lists that have the titles and values of bars in the same order, with
\* any links.
Relinked(bars) ==
    {s \in [1..Len(bars) -> LinkedProgress] :
        \A i \in 1..Len(bars) :
            s[i].Title = bars[i].Title /\ s[i].Value = bars[i].Value}

\* A run that finds the published bars on the page, with any links.
LinkPoll ==
    /\ \E now \in (clock + 1)..MaxTime :
         \E fetched \in {Some(s) : s \in Relinked(offset.Published)} :
           \E sendOk \in SendOutcomes(offset, now, fetched) :
               Check(now, fetched, sendOk)
    /\ UNCHANGED <<rapidVars, jsonVars, runVars, pureVars>>

\* The offsets file holds a published list whose bars may carry links.
InitLink ==
    /\ \E s \in LinkedSnapshots : offset = ProgressOffset(s, s, Nil)
    /\ DebounceDelay \in 0..MaxDelay
    /\ clock = 0
    /\ page = Nil
    /\ sent = Nil
    /\ err = ""
    /\ detectedAt = Nil
    /\ steady = FALSE
    /\ wasDebouncing = FALSE
    /\ dropped = {}
    /\ reappeared = FALSE
    /\ sendCalls = <<>>
    /\ old = <<>>
    /\ new = <<>>
    /\ result = Nil
    /\ called = FALSE
    /\ RapidIdle
    /\ JsonIdle
    /\ RunIdle
    /\ PureIdle

NextLink == LinkPoll

SpecLink == InitLink /\ [][NextLink]_vars

\* ------------------------------------------------------------- properties
\* The latest Check fetched and parsed a page with at least one bar.
Fetched == page # Nil /\ page # Some(<<>>)

\* C1: with DebounceDelay = 0, a poll whose page differs from Published calls
\* Send in that poll with diff(Published, page), and when Send succeeds the
\* returned offset is {Published: page, Observed: page, DebounceStart: nil}.
C1_ImmediatePublish ==
    [][(/\ DebounceDelay = 0
        /\ Fetched'
        /\ diff(offset.Published, Get(page')) # Nil)
       => /\ sent' = diff(offset.Published, Get(page'))
          /\ err' # "fetch"
          /\ err' = "" => offset' = ProgressOffset(Get(page'), Get(page'), Nil)]_vars

C1_Witness ==
    /\ DebounceDelay = 0
    /\ Fetched
    /\ sent # Nil
    /\ err = ""
    /\ offset = ProgressOffset(Get(page), Get(page), Nil)

\* C2: with DebounceDelay = D > 0 and a single isolated change (every poll since
\* the one that detected it fetched the same page), no poll calls Send while
\* now - detectedAt < D, and the first poll with now - detectedAt >= D does,
\* and returns Published = page when Send succeeds.
C2_IsolatedChange ==
    [][(/\ DebounceDelay > 0
        /\ detectedAt # Nil
        /\ steady
        /\ page' = Some(offset.Observed))
       => /\ clock' - Get(detectedAt) < DebounceDelay => sent' = Nil
          /\ (/\ clock - Get(detectedAt) < DebounceDelay
              /\ clock' - Get(detectedAt) >= DebounceDelay)
             => /\ sent' # Nil
                /\ err' = "" => offset'.Published = Get(page')]_vars

\* C3: when Send fails, Check returns the offset it was given together with the
\* error, and a following poll that fetches the same page calls Send with the
\* same diff again.
C3_SendFailureRetries ==
    [][/\ err' = "send" => (offset' = offset /\ sent' # Nil)
       /\ (err = "send" /\ page' = page) => sent' = sent]_vars

C3_Witness ==
    /\ err = "send"
    /\ sent = diff(offset.Published, Get(page))
    /\ sent # Nil
    /\ offset.DebounceStart # Nil
    /\ wasDebouncing

\* C4: with DebounceDelay > 0, in every offset returned by Check, DebounceStart
\* is non-nil if and only if diff(Published, Observed) is non-nil.
C4_DebounceIffPending ==
    (DebounceDelay > 0 /\ clock > 0)
        => (offset.DebounceStart # Nil
                <=> diff(offset.Published, offset.Observed) # Nil)

\* C5 as stated: on a poll given a non-nil DebounceStart whose wait is not
\* over, the returned DebounceStart is now when diff(Observed, page) is non-nil
\* and the given one when it is nil; nothing is sent and Published is kept.
C5_ResetOrKeepAsStated ==
    [][(/\ offset.DebounceStart # Nil
        /\ Fetched'
        /\ shouldDelay(clock', offset))
       => /\ diff(offset.Observed, Get(page')) # Nil
                => offset'.DebounceStart = Some(clock')
          /\ diff(offset.Observed, Get(page')) = Nil
                => offset'.DebounceStart = offset.DebounceStart
          /\ sent' = Nil
          /\ offset'.Published = offset.Published]_vars

\* C5 amended: the same, for polls whose page differs from Published
\* (diff(Published, page) is non-nil).
C5_ResetOrKeep ==
    [][(/\ offset.DebounceStart # Nil
        /\ Fetched'
        /\ shouldDelay(clock', offset)
        /\ diff(offset.Published, Get(page')) # Nil)
       => /\ diff(offset.Observed, Get(page')) # Nil
                => offset'.DebounceStart = Some(clock')
          /\ diff(offset.Observed, Get(page')) = Nil
                => offset'.DebounceStart = offset.DebounceStart
          /\ sent' = Nil
          /\ err' = ""
          /\ offset'.Published = offset.Published
          /\ offset'.Observed = Get(page')]_vars

\* A poll inside the window has restarted the timer of a running debounce.
C5_Witness ==
    /\ wasDebouncing
    /\ Fetched
    /\ err = ""
    /\ sent = Nil
    /\ offset.DebounceStart = Some(clock)
    /\ detectedAt # Nil
    /\ Get(detectedAt) < clock

\* C6: every diff handed to Send is diff(Published, page) of the offset given
\* to that poll and the page fetched in it: one record per bar of the page,
\* each new_value a value of the page and each old_value a value Published
\* holds for that title (0 for a title Published does not hold).
C6_SentDiffAgainstPublished ==
    [][sent' # Nil
       => /\ Fetched'
          /\ sent' = diff(offset.Published, Get(page'))
          /\ LET d == Get(sent')
                 cur == Get(page')
                 pub == offset.Published
             IN  /\ Len(d) = Len(cur)
                 /\ \A i \in 1..Len(d) :
                        /\ d[i].Title = cur[i].Title
                        /\ d[i].Value = cur[i].Value
                        /\ d[i].New <=> (\A j \in 1..Len(pub) :
                                            pub[j].Title # d[i].Title)
                        /\ d[i].New => d[i].OldValue = 0
                        /\ ~d[i].New => \E j \in 1..Len(pub) :
                                            /\ pub[j].Title = d[i].Title
                                            /\ pub[j].Value = d[i].OldValue]_vars

\* A debounced publish after polls that fetched differing pages.
C6_Witness ==
    /\ DebounceDelay > 0
    /\ wasDebouncing
    /\ ~steady
    /\ sent # Nil
    /\ err = ""
    /\ \E i \in 1..Len(Get(sent)) :
           /\ ~Get(sent)[i].New
           /\ Get(sent)[i].OldValue # Get(sent)[i].Value

\* C7: a poll given a non-nil DebounceStart whose page does not differ from
\* Published sends nothing and returns {Published, page, nil}, whatever the
\* time; and no poll that starts or continues a debounce has published, so the
\* whole change-then-revert episode publishes nothing.
C7_RevertClearsDebounce ==
    [][/\ (/\ offset.DebounceStart # Nil
           /\ Fetched'
           /\ diff(offset.Published, Get(page')) = Nil)
          => /\ sent' = Nil
             /\ err' = ""
             /\ offset' = ProgressOffset(offset.Published, Get(page'), Nil)
       /\ (offset'.DebounceStart # Nil /\ err' = "") => sent' = Nil]_vars

C7_Witness ==
    /\ wasDebouncing
    /\ Fetched
    /\ err = ""
    /\ sent = Nil
    /\ offset.DebounceStart = Nil
    /\ offset.Observed = Get(page)
    /\ DebounceDelay > 0

\* C8: with DebounceDelay > 0, whenever Check calls Send, the page fetched in
\* that poll does not differ from the list observed by the previous poll and at
\* least DebounceDelay has passed since the poll that last detected a change.
C8_PublishOnlyWhenQuiet ==
    [][(DebounceDelay > 0 /\ sent' # Nil)
       => /\ diff(offset.Observed, Get(page')) = Nil
          /\ offset.DebounceStart # Nil
          /\ clock' - Get(offset.DebounceStart) >= DebounceDelay]_vars

\* new is old with one or more bars deleted and nothing else changed.
IsDeletion(olds, news) ==
    /\ Len(news) < Len(olds)
    /\ \E f \in [1..Len(news) -> 1..Len(olds)] :
           /\ \A i, j \in 1..Len(news) : i < j => f[i] < f[j]
           /\ \A i \in 1..Len(news) : news[i] = olds[f[i]]

\* C9: when new is old with bars deleted (new may be empty) and nothing else
\* changed, diff(old, new) is nil.
C9_RemovalIsNoChange ==
    (called /\ IsDeletion(old, new)) => result = Nil

\* C10: diff(S, S) is nil for every list S, lists in which several bars carry
\* the same title included.
C10_DiffReflexive ==
    (called /\ old = new) => result = Nil

\* The lists that hold the bars of s in another order.
Reorderings(s) ==
    {[i \in 1..Len(s) |-> s[p[i]]] :
        p \in {q \in [1..Len(s) -> 1..Len(s)] :
                  \A i, j \in 1..Len(s) : i # j => q[i] # q[j]}}

\* The titles a diff flags, each with its flag: new, or changed in value.
Flagged(d) ==
    IF d = Nil THEN {}
    ELSE {<<Get(d)[i].Title, Get(d)[i].New>> :
             i \in {j \in 1..Len(Get(d)) :
                       Get(d)[j].New \/ Get(d)[j].OldValue # Get(d)[j].Value}}

\* C11: whether diff(old, new) is nil, and which titles it flags new or
\* changed, is the same for every order of old and every order of new; a
\* non-nil result has one record per bar of new, in new's order, unchanged bars
\* included, and no record for a title that only old holds.
C11_OrderInsensitive ==
    called =>
        /\ \A po \in Reorderings(old) : \A pn \in Reorderings(new) :
               /\ (diff(po, pn) = Nil) <=> (result = Nil)
               /\ Flagged(diff(po, pn)) = Flagged(result)
        /\ result # Nil =>
               /\ Len(Get(result)) = Len(new)
               /\ \A i \in 1..Len(new) :
                      /\ Get(result)[i].Title = new[i].Title
                      /\ Get(result)[i].Value = new[i].Value

\* new is old with one bar inserted whose title old does not hold.
IsOneBarAdded(olds, news, k) ==
    /\ Len(news) = Len(olds) + 1
    /\ k \in 1..Len(news)
    /\ \A j \in 1..Len(olds) : news[k].Title # olds[j].Title
    /\ \A j \in 1..Len(olds) : olds[j] = news[IF j < k THEN j ELSE j + 1]

\* C14: when new is old plus one bar of a title old does not hold, diff(old,
\* new) is non-nil, flags exactly that bar as new with old value 0, and holds
\* every other bar of new with New = false and OldValue = Value.
C14_OneNewBar ==
    called =>
        \A k \in 1..Len(new) :
            IsOneBarAdded(old, new, k) =>
                /\ result # Nil
                /\ Len(Get(result)) = Len(new)
                /\ \A i \in 1..Len(new) :
                       IF i = k
                       THEN Get(result)[i].New /\ Get(result)[i].OldValue = 0
                       ELSE /\ ~Get(result)[i].New
                            /\ Get(result)[i].OldValue = Get(result)[i].Value

\* C12: a poll whose fetch fails (HTTP error or unparsable document, page =
\* Nil) or whose page holds no progress bar sends nothing and returns the
\* error together with exactly the offset it was given.
C12_FetchFailureKeepsOffset ==
    [][~Fetched'
       => /\ sent' = Nil
          /\ err' = "fetch"
          /\ offset' = offset]_vars

\* A page without bars was fetched while a debounce was running, and the
\* debounce is still running.
C12_Witness ==
    /\ page = Some(<<>>)
    /\ err = "fetch"
    /\ wasDebouncing
    /\ offset.DebounceStart # Nil
    /\ diff(offset.Published, offset.Observed) # Nil

\* The run is the "Multiple rapid changes" scenario: Debounce(10ms), Sleep(4ms).
AsScripted == DebounceDelay = ScenarioDelay /\ sleepDuration = ScenarioSleep

\* C13 as stated: from published = observed = [A:50] with debounce 10 and polls
\* 4 apart fetching A:75, A:85, A:75, A:75, A:75, poll 1 sets DebounceStart
\* without publishing, polls 2 and 3 reset it without publishing, and by the
\* end of poll 5 exactly one publish has occurred, carrying [{A, 50 -> 75}],
\* with Published = [A:75] and DebounceStart = nil.
C13_RapidChangesAsStated ==
    AsScripted =>
        /\ polls = 1 => (pubs = 0 /\ offset.DebounceStart = Some(0))
        /\ polls = 2 => (pubs = 0 /\ offset.DebounceStart = Some(ScenarioSleep))
        /\ polls = 3 => (pubs = 0 /\ offset.DebounceStart = Some(2 * ScenarioSleep))
        /\ polls = 5 =>
               /\ pubs = 1
               /\ offset.Published = <<Bar("A", 75)>>
               /\ offset.DebounceStart = Nil

\* C13 amended: the same scenario with a sixth poll fetching A:75. Polls 1 to 3
\* are as stated; polls 4 and 5 keep the DebounceStart of poll 3 and publish
\* nothing (at poll 5 only 8 of the 10 have passed); poll 6 publishes, so that
\* after it exactly one publish has occurred, carrying [{A, 50 -> 75}], with
\* Published = [A:75] and DebounceStart = nil.
C13_RapidChanges ==
    AsScripted =>
        /\ polls = 1 => (pubs = 0 /\ offset.DebounceStart = Some(0))
        /\ polls = 2 => (pubs = 0 /\ offset.DebounceStart = Some(ScenarioSleep))
        /\ polls = 3 => (pubs = 0 /\ offset.DebounceStart = Some(2 * ScenarioSleep))
        /\ polls \in {4, 5} =>
               /\ pubs = 0
               /\ sent = Nil
               /\ offset.DebounceStart = Some(2 * ScenarioSleep)
        /\ polls \in 1..5 => offset.Published = RapidInitial
        /\ polls = 6 =>
               /\ pubs = 1
               /\ sent = Some(<<[Title |-> "A", Link |-> "", OldValue |-> 50,
                                 Value |-> 75, New |-> FALSE]>>)
               /\ offset = ProgressOffset(<<Bar("A", 75)>>, <<Bar("A", 75)>>, Nil)

\* The scenario has run to its sixth poll, which published.
C13_Witness ==
    /\ AsScripted
    /\ polls = 6
    /\ pubs = 1
    /\ sent # Nil
    /\ clock = 5 * ScenarioSleep

\* C20: decoding a bare array of progress items succeeds and yields Published
\* = Observed = that array, items and order kept, and DebounceStart = nil;
\* decoding the object form succeeds and yields the Published, Observed and
\* DebounceStart the object gives.
C20_UnmarshalOffset ==
    decoded # Nil =>
        LET r == Get(decoded)
        IN  /\ (data.kind = "array" /\ data.wellTyped)
                  => /\ ~r.err
                     /\ r.value.Published = data.items
                     /\ r.value.Observed = data.items
                     /\ r.value.DebounceStart = Nil
            /\ (data.kind = "object" /\ data.wellTyped)
                  => /\ ~r.err
                     /\ data.Published # Nil
                            => r.value.Published = Get(data.Published)
                     /\ data.Observed # Nil
                            => r.value.Observed = Get(data.Observed)
                     /\ r.value.DebounceStart = data.DebounceStart

\* A legacy list of two different bars has been decoded.
C20_Witness ==
    /\ decoded # Nil
    /\ data.kind = "array"
    /\ Len(data.items) = 2
    /\ data.items[1] # data.items[2]
    /\ ~Get(decoded).err
    /\ Get(decoded).value.Observed = data.items

\* The stored offset of connector c, if any, decodes.
Decodable(c) == c \notin DOMAIN rawOffsets \/ rawOffsets[c] # "bad"

\* C15: if a connector's Check returned an error, the process ends with a
\* failure exit status, after the offsets file was written, in every
\* interleaving of the tasks. Stated for the runs that reach the end of main.
C15_CheckErrorFailsRun ==
    (checkFailed # {} /\ mainPc = "done")
        => (exitStatus = 1 /\ offsetsFile # Nil)

\* C16: if Init fails for a connector, its Check is not invoked, every other
\* connector's Check is invoked (given that its stored offset decodes), and the
\* run terminates with the offsets file written: main never waits for ever.
C16_InitFailureSkipsOnlyThatConnector ==
    initFailed # {}
        => /\ initFailed \cap checkInvoked = {}
           /\ mainPc \in {"done", "fatal"} \/ ENABLED NextRun
           /\ mainPc = "done"
                 => /\ offsetsFile # Nil
                    /\ \A c \in Conns \ initFailed :
                           Decodable(c) => c \in checkInvoked

\* C17: a failure of connector A's Check, or of decoding A's stored offset,
\* never keeps another connector B's Check from being invoked nor the offset
\* B's Check returned from being written. Stated for the runs in which every
\* Init succeeded and which reach the end of main: every connector whose own
\* stored offset decodes had its Check invoked and its new offset written.
C17_SiblingFailureIsolated ==
    (initFailed = {} /\ mainPc = "done")
        => \A b \in Conns :
               Decodable(b)
                   => /\ b \in checkInvoked
                      /\ b \in DOMAIN Get(offsetsFile)
                      /\ Get(offsetsFile)[b] = newOffset[b]

\* C18: every key of the offsets file read at start that names no configured
\* connector is in the offsets file written at the end, with the same value.
C18_UnknownKeysPreserved ==
    offsetsFile # Nil
        => \A k \in DOMAIN rawOffsets \ Conns :
               /\ k \in DOMAIN Get(offsetsFile)
               /\ Get(offsetsFile)[k] = rawOffsets[k]

\* The file was written with the key of a removed connector next to a new
\* offset of one connector, while another connector's Check failed.
C18_Witness ==
    /\ offsetsFile # Nil
    /\ \E k \in Orphans : k \in DOMAIN rawOffsets
    /\ checkFailed # {}
    /\ \E c \in Conns :
           /\ c \in DOMAIN Get(offsetsFile)
           /\ Get(offsetsFile)[c] = "v1"

\* C19: if any connector of the configuration names an unknown plugin or is
\* rejected by its plugin's Validate, the process ends with a failure before
\* any work: no Init, no Check, no message sent, no offsets file written.
C19_ConfigErrorIsFatal ==
    (mainPc # "load" /\ \E c \in Conns : config[c] # "valid")
        => /\ mainPc = "fatal"
           /\ exitStatus = 1
           /\ initInvoked = {}
           /\ checkInvoked = {}
           /\ sentBy = {}
           /\ offsetsFile = Nil

\* Load has rejected a configuration in which one connector is valid and the
\* other names an unknown plugin.
C19_Witness ==
    /\ mainPc = "fatal"
    /\ \E c \in Conns : config[c] = "unknownPlugin"
    /\ \E c \in Conns : config[c] = "valid"

Lookup(cfg, k) ==
    IF cfg = Nil THEN Nil
    ELSE IF k \in DOMAIN Get(cfg) THEN Some(Get(cfg)[k]) ELSE Nil

\* C22: merging completes normally, also when both configurations define the
\* same key with a scalar value, and for every key the merged configuration
\* has the connector's value if the connector defines the key (for a nested
\* map: the connector's value for every key the connector's map defines) and
\* the shared value otherwise.
C22_ConnectorTakesPrecedence ==
    merged # Nil =>
        LET left == Get(mergeArgs).left
            right == Get(mergeArgs).right
            m == Get(merged)
        IN  /\ ~m.panic
            /\ \A k \in CfgKeys :
                   /\ Lookup(left, k) = Nil => Lookup(m.value, k) = Lookup(right, k)
                   /\ (Lookup(left, k) # Nil /\ Get(Lookup(left, k)).kind = "scalar")
                         => Lookup(m.value, k) = Lookup(left, k)
                   /\ (Lookup(left, k) # Nil /\ Get(Lookup(left, k)).kind = "map")
                         => /\ Lookup(m.value, k) # Nil
                            /\ Get(Lookup(m.value, k)).kind = "map"
                            /\ \A j \in DOMAIN Get(Lookup(left, k)).map :
                                   /\ j \in DOMAIN Get(Lookup(m.value, k)).map
                                   /\ Get(Lookup(m.value, k)).map[j]
                                          = Get(Lookup(left, k)).map[j]

\* C24: Validate returns an error exactly when Url is empty, or Message is
\* empty, or DebounceDelay is negative; a DebounceDelay of zero is accepted.
C24_ValidateExactly ==
    validated # Nil =>
        LET p == Get(plugin)
        IN  (Get(validated) # "")
                <=> (p.Url = "" \/ p.Message = "" \/ p.DebounceDelay < 0)

\* A plugin with Url, Message and a zero DebounceDelay has been accepted.
C24_Witness ==
    /\ validated = Some("")
    /\ Get(plugin).DebounceDelay = 0
    /\ Get(plugin).Url # ""
    /\ Get(plugin).Message # ""

\* An Atom offset without the IDs it maps to false (nil stays nil).
WithoutFalse(o) ==
    IF o = Nil THEN Nil
    ELSE Some([k \in {j \in DOMAIN Get(o) : Get(o)[j]} |-> TRUE])

\* C23: Atom Check never sends a message for an entry whose ID the given offset
\* maps to true; and an ID mapped to false is treated as an ID the offset does
\* not hold: Check given the offset without its false IDs sends the same
\* messages, returns the same error and returns an offset with the same true
\* IDs.
C23_HandledNeverResent ==
    atomOut # Nil =>
        LET a == Get(atomArgs)
            out == Get(atomOut)
            b == [a EXCEPT !.offset = WithoutFalse(a.offset)]
            alt == AtomCheck(b)
        IN  /\ \A i \in 1..Len(out.sent) :
                   ~(/\ a.offset # Nil
                     /\ out.sent[i] \in DOMAIN Get(a.offset)
                     /\ Get(a.offset)[out.sent[i]])
            /\ alt.sent = out.sent
            /\ alt.err = out.err
            /\ WithoutFalse(alt.offset) = WithoutFalse(out.offset)

\* A feed held an entry mapped to true and one mapped to false; only the
\* latter was sent, and it is now mapped to true.
C23_Witness ==
    /\ atomOut # Nil
    /\ Get(atomArgs).offset = Some([k \in AtomIDs |-> k = "e1"])
    /\ Len(Get(atomArgs).feed.entries) = 2
    /\ \E i \in 1..2 : Get(atomArgs).feed.entries[i].ID = "e1"
    /\ Get(atomOut).sent = <<"e2">>
    /\ Get(atomOut).offset = Some([k \in AtomIDs |-> TRUE])

\* The pieces of a text between the occurrences of a separator.
RECURSIVE Pieces(_, _)

Pieces(text, sep) ==
    IF \A i \in 1..Len(text) : text[i] # sep THEN <<text>>
    ELSE LET i == CHOOSE k \in 1..Len(text) :
                      text[k] = sep /\ \A j \in 1..(k - 1) : text[j] # sep
         IN  <<SubSeq(text, 1, i - 1)>> \o Pieces(SubSeq(text, i + 1, Len(text)), sep)

\* The entries of a rendered message: what blank lines separate, each entry
\* as its lines.
Entries(text) ==
    IF text = <<>> THEN <<>>
    ELSE LET p == Pieces(text, "<nl><nl>") IN [i \in 1..Len(p) |-> Pieces(p[i], "<nl>")]

\* C25: Render writes one entry per diff record, in the diff's order, entries
\* separated by a blank line. The first line of an entry is the title between
\* "**": prefixed by "[New] " if the record is new; otherwise prefixed by
\* "[Changed] " and followed by " (old% -> new%)" if the values differ;
\* otherwise bare. The title is written as [title](link) when the link is not
\* empty.
C25_RenderAnnotates ==
    rendered # Nil =>
        LET lines == Entries(Get(rendered).text)
        IN  /\ ~Get(rendered).panic
            /\ Len(lines) = Len(progressBars)
            /\ \A i \in 1..Len(progressBars) :
                 LET d == progressBars[i]
                     title == IF d.Link = "" THEN <<d.Title>>
                              ELSE <<"[", d.Title, "](", d.Link, ")">>
                     changed == (~d.New) /\ d.OldValue # d.Value
                     prefix == IF d.New THEN <<"[New] ">>
                               ELSE IF changed THEN <<"[Changed] ">> ELSE <<>>
                     suffix == IF changed
                               THEN <<" (">> \o Digits(d.OldValue) \o <<"% -> ">>
                                    \o Digits(d.Value) \o <<"%)">>
                               ELSE <<>>
                 IN  /\ Len(lines[i]) = 2
                     /\ lines[i][1] = <<"**">> \o prefix \o title \o suffix \o <<"**">>

\* Two entries were rendered: a new record whose values differ, with a link,
\* then a changed one.
C25_Witness ==
    /\ rendered # Nil
    /\ Len(progressBars) = 2
    /\ progressBars[1].New
    /\ progressBars[1].OldValue # progressBars[1].Value
    /\ progressBars[1].Link # ""
    /\ ~progressBars[2].New
    /\ progressBars[2].OldValue # progressBars[2].Value
    /\ Len(Entries(Get(rendered).text)) = 2

\* C26: for a value v with 0 <= v <= 100 the second line of an entry is, between
\* two backquotes, floor(v / 2.5) filled blocks, then empty blocks up to 40
\* blocks in all, a space, and v right-aligned in a field of width 3 followed
\* by "%".
C26_BarProportional ==
    rendered # Nil =>
        \A i \in 1..Len(progressBars) :
            LET v == progressBars[i].Value
                bar == Entries(Get(rendered).text)[i][2]
            IN  (0 <= v /\ v <= 100) =>
                  \E k \in 0..40 :
                     /\ 5 * k <= 2 * v
                     /\ 2 * v < 5 * (k + 1)
                     /\ Len(bar) = 47
                     /\ bar[1] = "<tick>"
                     /\ \A j \in 2..(k + 1) : bar[j] = "<full>"
                     /\ \A j \in (k + 2)..41 : bar[j] = "<empty>"
                     /\ bar[42] = " "
                     /\ SubSeq(bar, 43, 45) =
                            [j \in 1..(3 - Len(Digits(v))) |-> " "] \o Digits(v)
                     /\ bar[46] = "%"
                     /\ bar[47] = "<tick>"

\* A bar of 4 percent was rendered: one filled block, 4 / 2.5 rounded down.
C26_Witness ==
    /\ rendered # Nil
    /\ Len(progressBars) = 1
    /\ progressBars[1].Value = 4
    /\ Entries(Get(rendered).text)[1][2][2] = "<full>"
    /\ Entries(Get(rendered).text)[1][2][3] = "<empty>"

C28_PublishReplacesWholesale ==
    [][/\ (Fetched' /\ diff(offset.Published, Get(page')) = Nil)
          => offset'.Published = offset.Published
       /\ (sent' # Nil /\ err' = "")
          => /\ offset'.Published = Get(page')
             /\ dropped' = (dropped \cup TitlesOf(offset.Published))
                           \ TitlesOf(Get(page'))
       /\ sent' # Nil
          => \A i \in 1..Len(Get(sent')) :
                (\/ Get(sent')[i].Title \in dropped
                 \/ Get(sent')[i].Title \notin TitlesOf(offset.Published))
                => Get(sent')[i].New]_vars

\* A title that an earlier publish dropped from Published was on the page
\* again, was sent as new and is published again.
C28_Witness ==
    /\ reappeared
    /\ sent # Nil
    /\ err = ""
    /\ offset.Published = Get(page)
    /\ \E i \in 1..Len(Get(sent)) :
          Get(sent)[i].New /\ Get(sent)[i].Title \in TitlesOf(offset.Published)

C30_FileHoldsReturnedOffset ==
    offsetsFile # Nil =>
        \A c \in checkInvoked :
            /\ c \in DOMAIN Get(offsetsFile)
            /\ Get(offsetsFile)[c] = newOffset[c]

\* The file was written after a Check that failed and returned another offset
\* than the one read at start: the file holds the returned one.
C30_Witness ==
    /\ offsetsFile # Nil
    /\ \E c \in checkFailed :
          /\ c \in DOMAIN rawOffsets
          /\ rawOffsets[c] = "v0"
          /\ newOffset[c] = "v1"
          /\ Get(offsetsFile)[c] = "v1"

\* C31: a connector whose stored offset does not decode into its plugin's
\* prototype never has its Check invoked; and when main reaches its end, the
\* exit status is a failure and the offsets file holds the connector's stored
\* raw offset as it was read.
C31_UndecodableOffsetSkipsCheck ==
    \A c \in Conns :
        (c \in DOMAIN rawOffsets /\ rawOffsets[c] = "bad")
            => /\ c \notin checkInvoked
               /\ mainPc = "done"
                     => /\ exitStatus = 1
                        /\ c \in DOMAIN Get(offsetsFile)
                        /\ Get(offsetsFile)[c] = "bad"

\* C37: a connector whose stored offset decodes is never reported as an
\* offset-parse failure, and once its task has ended its Check was invoked,
\* whatever main's Init calls and the other tasks do in between.
C37_DecodableOffsetReachesCheck ==
    \A c \in Conns :
        (c \in DOMAIN rawOffsets /\ rawOffsets[c] # "bad")
            => /\ taskPc[c] # "sendParse"
               /\ taskPc[c] = "done" => c \in checkInvoked

\* C32: a Check calls Discord.Send at most once. It calls it once exactly when
\* it publishes, with the difference it publishes; a Check whose Send failed
\* made that one call and returns the offset it was given; a Check that does
\* not publish (failed fetch, no change, debounce) makes no call.
C32_OneSendPerCheck ==
    [][/\ Len(sendCalls') <= 1
       /\ sent' = Nil <=> sendCalls' = <<>>
       /\ sent' # Nil => sendCalls' = <<Get(sent')>>
       /\ err' = "send" => (Len(sendCalls') = 1 /\ offset' = offset)
       /\ (\/ ~Fetched'
           \/ diff(offset.Published, Get(page')) = Nil
           \/ shouldDelay(clock', offset))
          => sendCalls' = <<>>]_vars

\* A Check whose one Send call failed.
C32_Witness ==
    /\ err = "send"
    /\ Len(sendCalls) = 1
    /\ sent = Some(sendCalls[1])
    /\ wasDebouncing

\* Send has returned.
SendReturned == sendState \notin {"idle", "running"}

\* C33: one call of Send makes at most 3 HTTP POSTs; every POST but the last
\* was answered by a rate limit; when the third POST is answered by a rate
\* limit Send returns an error; after any other answer that is not the 204 of
\* success Send returns an error without another POST; and Send, as long as
\* it has not returned, can take its next step, of which there are at most 4.
C33_SendRetriesBounded ==
    /\ Len(responses) <= 3
    /\ \A i \in 1..(Len(responses) - 1) : responses[i].kind = "429"
    /\ sendState # "idle" => (sendTry >= 1 /\ sendTry <= 3)
    /\ sendState = "running" => Len(responses) = sendTry - 1
    /\ (Len(responses) = 3 /\ responses[3].kind \in {"429", "429bad"})
          => sendState = "rateLimited"
    /\ \A i \in 1..Len(responses) :
          responses[i].kind \in {"postError", "readError", "other", "429bad"}
              => (i = Len(responses) /\ SendReturned /\ sendState # "nil")
    /\ sendState = "nil"
          <=> (responses # <<>> /\ responses[Len(responses)].kind = "204")
    /\ SendReturned \/ ENABLED NextSend

\* Send was rate limited three times and returned the error of that.
C33_Witness ==
    /\ sendState = "rateLimited"
    /\ Len(responses) = 3
    /\ \A i \in 1..3 : responses[i].kind = "429"
    /\ slept > 0

\* C34: Published changes only by a successful publish. A Check that returns
\* another Published than it was given called Send, Send succeeded, and the
\* returned Published is the page fetched in that Check; a Check that sent
\* nothing or returned an error returns the Published it was given.
C34_PublishedChangesOnlyByPublish ==
    [][/\ offset'.Published # offset.Published
          => /\ sent' # Nil
             /\ Len(sendCalls') = 1
             /\ err' = ""
             /\ Fetched'
             /\ offset'.Published = Get(page')
       /\ (sent' = Nil \/ err' # "")
          => offset'.Published = offset.Published]_vars

\* A publish after a debounce changed Published: it sent a bar whose title
\* was not published before.
C34_Witness ==
    /\ wasDebouncing
    /\ sent # Nil
    /\ err = ""
    /\ offset.Published = Get(page)
    /\ \E i \in 1..Len(Get(sent)) : Get(sent)[i].New
    /\ ~reappeared

\* C35: after a Check that fetched S and returned {Published: S, Observed: S,
\* DebounceStart: nil} without an error (it published S, or found S
\* unchanged after such a publish), a Check that fetches the same S sends
\* nothing and returns the same offset, for every S the reader can produce,
\* lists in which two bars carry one title included.
C35_NoRepeatForUnchangedSource ==
    [][(/\ clock > 0
        /\ Fetched
        /\ err = ""
        /\ offset = ProgressOffset(Get(page), Get(page), Nil)
        /\ page' = page)
       => /\ sent' = Nil
          /\ sendCalls' = <<>>
          /\ err' = ""
          /\ offset' = offset]_vars

\* The steady source's list is published and no debounce is under way.
SourcePublished ==
    /\ source # Nil
    /\ offset = ProgressOffset(Get(source), Get(source), Nil)

\* C36: with DebounceDelay > 0, a source that stays at a list S of distinct
\* titles which differs from the published one, Send succeeding and polls a
\* fixed positive time apart: eventually a Check publishes and returns
\* {Published: S, Observed: S, DebounceStart: nil}, which then stays; exactly
\* one message is sent, none after that publish.
C36_EventualPublication ==
    /\ <>[](SourcePublished /\ pubs = 1)
    /\ [](pubs <= 1)
    /\ [](pubs = 1 => SourcePublished)
    /\ [][SourcePublished => (sent' = Nil /\ offset' = offset)]_vars

\* The debounce has run its time, the list was published once and a later
\* poll of the same list sent nothing.
C36_Witness ==
    /\ SourcePublished
    /\ pubs = 1
    /\ polls >= 3
    /\ wasDebouncing = FALSE
    /\ sent = Nil
    /\ DebounceDelay > 1

\* C38: when the fetched list has the titles and values of the published one
\* and differs from it in links only, diff of the two is nil, Check sends
\* nothing, and it returns the Published it was given, with its links, and the
\* fetched list as Observed.
C38_LinkAloneIsNoChange ==
    [][(/\ Fetched'
        /\ Get(page') \in Relinked(offset.Published)
        /\ Get(page') # offset.Published)
       => /\ diff(offset.Published, Get(page')) = Nil
          /\ sent' = Nil
          /\ err' = ""
          /\ offset'.Published = offset.Published
          /\ offset'.Observed = Get(page')]_vars

\* The IDs an Atom offset maps to true.
TrueIDs(o) == IF o = Nil THEN {} ELSE {k \in DOMAIN Get(o) : Get(o)[k]}

\* The posts of a Check in the order it goes through them, and whether one is
\* sent (neither too new nor too old).
PostsOf(a) ==
    SortByTimestamp(CollectPosts(a.feed.entries, 1,
                        IF a.offset = Nil THEN NoMap ELSE Get(a.offset), <<>>).posts)

IsSendable(a, post) ==
    /\ ~(a.minAge # Nil /\ post.age < Get(a.minAge))
    /\ ~(a.maxAge # Nil /\ post.age > Get(a.maxAge))

\* The position, among the posts, of the one whose Send is call number failAt.
FailedPost(a) ==
    CHOOSE i \in 1..Len(PostsOf(a)) :
        /\ IsSendable(a, PostsOf(a)[i])
        /\ Cardinality({j \in 1..i : IsSendable(a, PostsOf(a)[j])}) = a.failAt

\* C39 as stated: when the Send of a post fails, the IDs the returned offset
\* maps to true are those of the given offset, those sent before the failure
\* and those excluded by tag or by maximum age before it; the failed post and
\* the posts after it are not among them; and a following Check of the same
\* feed sends the failed post and every sendable post after it, and none of
\* those already sent.
C39_PartialFailureAsStated ==
    (atomOut # Nil /\ Get(atomOut).err = "send") =>
        LET a == Get(atomArgs)
            out == Get(atomOut)
            posts == PostsOf(a)
            k == FailedPost(a)
            sentIDs == {out.sent[i] : i \in 1..Len(out.sent)}
            tagged == {a.feed.entries[i].ID : i \in
                         {j \in 1..Len(a.feed.entries) :
                              /\ a.feed.entries[j].tag = "excluded"
                              /\ a.feed.entries[j].ID \notin TrueIDs(a.offset)}}
            tooOld == {posts[i].ID : i \in
                         {j \in 1..(k - 1) :
                              a.maxAge # Nil /\ posts[j].age > Get(a.maxAge)}}
            next == AtomCheck([a EXCEPT !.offset = out.offset, !.failAt = 0])
            nextIDs == {next.sent[i] : i \in 1..Len(next.sent)}
        IN  /\ TrueIDs(out.offset) = TrueIDs(a.offset) \cup sentIDs \cup tagged \cup tooOld
            /\ \A i \in k..Len(posts) : posts[i].ID \notin TrueIDs(out.offset)
            /\ \A i \in k..Len(posts) :
                   IsSendable(a, posts[i]) => posts[i].ID \in nextIDs
            /\ nextIDs \cap sentIDs = {}

\* The entries of the feed of a Check have pairwise distinct IDs.
DistinctIDs(a) ==
    Cardinality({a.feed.entries[i].ID : i \in 1..Len(a.feed.entries)})
        = Len(a.feed.entries)

\* C39 amended: when the Send of a post fails, the IDs the returned offset
\* maps to true are those of the given offset, those sent before the failure
\* and those excluded by tag or by maximum age before it; a following Check of
\* the same feed sends none of the IDs already sent, and sends every sendable
\* post from the failed one on whose ID is not mapped to true. In a feed whose
\* entries have pairwise distinct IDs the failed post and the posts after it
\* are not mapped to true, so the following Check sends each sendable one of
\* them.
C39_PartialFailure ==
    (atomOut # Nil /\ Get(atomOut).err = "send") =>
        LET a == Get(atomArgs)
            out == Get(atomOut)
            posts == PostsOf(a)
            k == FailedPost(a)
            sentIDs == {out.sent[i] : i \in 1..Len(out.sent)}
            tagged == {a.feed.entries[i].ID : i \in
                         {j \in 1..Len(a.feed.entries) :
                              /\ a.feed.entries[j].tag = "excluded"
                              /\ a.feed.entries[j].ID \notin TrueIDs(a.offset)}}
            tooOld == {posts[i].ID : i \in
                         {j \in 1..(k - 1) :
                              a.maxAge # Nil /\ posts[j].age > Get(a.maxAge)}}
            next == AtomCheck([a EXCEPT !.offset = out.offset, !.failAt = 0])
            nextIDs == {next.sent[i] : i \in 1..Len(next.sent)}
        IN  /\ TrueIDs(out.offset) = TrueIDs(a.offset) \cup sentIDs \cup tagged \cup tooOld
            /\ nextIDs \cap sentIDs = {}
            /\ \A i \in k..Len(posts) :
                   (IsSendable(a, posts[i]) /\ posts[i].ID \notin TrueIDs(out.offset))
                       => posts[i].ID \in nextIDs
            /\ DistinctIDs(a) =>
                   \A i \in k..Len(posts) :
                       /\ posts[i].ID \notin TrueIDs(out.offset)
                       /\ IsSendable(a, posts[i]) => posts[i].ID \in nextIDs

\* The older of two posts was sent, the Send of the newer failed: only the
\* older is mapped to true.
C39_Witness ==
    /\ atomOut # Nil
    /\ Get(atomOut).err = "send"
    /\ Get(atomArgs).offset = Nil
    /\ Get(atomArgs).failAt = 2
    /\ Get(atomOut).sent = <<"e2">>
    /\ Get(atomOut).offset = Some([k \in {"e2"} |-> TRUE])
    /\ DistinctIDs(Get(atomArgs))

====
